---------------------------- MODULE Spec2Model ----------------------------
(* State-machine model of server/main.py (monopoly-online): the lobby /    *)
(* session handlers, the turn machine, the economic engine and the bot     *)
(* driver.  The Game and the Lobby are records threaded through operators  *)
(* in the order the Python code mutates them.                              *)
EXTENDS Integers, Sequences, FiniteSets, TLC

VARIABLES
    g,          \* the Game object attached to the lobby (lobby.game)
    l,          \* the Lobby object (LOBBIES[lobby_id])
    USERNAMES,  \* sid -> display name ("" when the sid has no entry)
    now,        \* the event loop's monotonic clock, in seconds
    tasks,      \* scheduled disconnect.timeout_check tasks: {[pname, due]}
    conn,       \* the socket server's sessions: sid -> "new", "live" or "closed"
    inflight,   \* roll_dice handlers suspended at the awaited sound emit
    ev,         \* history: the last handler that ran and what it observed
    th,         \* history of the current turn: bookkeeping runs, doubles streak
    budget      \* history: handler invocations still allowed by the bounds

vars == <<g, l, USERNAMES, now, tasks, conn, inflight, ev, th, budget>>

-----------------------------------------------------------------------------
(* Bounds of the model                                                     *)

MaxSteps == 3        \* requests explored per behaviour: a dice throw, an accepted
                     \* end_turn or a bot tick counts 1, any other request 2
MaxClock == 3        \* clock ticks explored per behaviour (one tick = TickLen s)
MaxSession == 4      \* session events (auth, join, disconnect, sweep) per behaviour
MaxLedger == 5       \* ledger operations (debts incurred, inflows routed) per behaviour
MaxEstate == 5       \* management, purchase and trade requests explored per behaviour
MaxKick == 3         \* vote-kick machine: requests explored per behaviour
MaxLobby == 4        \* lobby machine: requests explored per behaviour
MaxSweep == 4        \* sweep machine: session events explored per behaviour
MaxTrade == 3        \* trade requests (offer, accept, decline, cancel) per behaviour

(* Program constants                                                       *)

BOARD_LEN == 40
JAIL_POS == 10
GO_SALARY == 200
JAIL_FEE == 50
DISCONNECT_GRACE == 120
LUXURY_TAX == 100
INCOME_TAX_CAP == 200

NONE == "none"       \* Python None for names
BANK == "bank"
RECENT_CAP == 300

-----------------------------------------------------------------------------
(* Board catalog: monopoly_tiles(), RENT_TABLE, HOUSE_COST_BY_GROUP        *)

Positions == 0..(BOARD_LEN - 1)

TileTypeSeq ==
    << "go", "property", "chest", "property", "tax", "railroad", "property",
       "chance", "property", "property",
       "jail", "property", "utility", "property", "property", "railroad",
       "property", "chest", "property", "property",
       "free", "property", "chance", "property", "property", "railroad",
       "property", "property", "utility", "property",
       "gotojail", "property", "property", "chest", "property", "railroad",
       "chance", "property", "tax", "property" >>

TileGroupSeq ==
    << NONE, "brown", NONE, "brown", NONE, "railroad", "light-blue",
       NONE, "light-blue", "light-blue",
       NONE, "pink", "utility", "pink", "pink", "railroad",
       "orange", NONE, "orange", "orange",
       NONE, "red", NONE, "red", "red", "railroad",
       "yellow", "yellow", "utility", "yellow",
       NONE, "green", "green", NONE, "green", "railroad",
       NONE, "dark-blue", NONE, "dark-blue" >>

TilePriceSeq ==
    << 0, 60, 0, 60, 0, 200, 100, 0, 100, 120,
       0, 140, 150, 140, 160, 200, 180, 0, 180, 200,
       0, 220, 0, 220, 240, 200, 260, 260, 150, 280,
       0, 300, 300, 0, 320, 200, 0, 350, 0, 400 >>

TileType(pos) == TileTypeSeq[pos + 1]
TileGroup(pos) == TileGroupSeq[pos + 1]
TilePrice(pos) == TilePriceSeq[pos + 1]

monopoly_tiles == [pos \in Positions |->
    [type |-> TileType(pos), group |-> TileGroup(pos), price |-> TilePrice(pos)]]

Ownable == {pos \in Positions : TileType(pos) \in {"property", "railroad", "utility"}}

RENT_TABLE(pos) ==
    CASE pos = 1 -> <<2, 10, 30, 90, 160, 250>>
      [] pos = 3 -> <<4, 20, 60, 180, 320, 450>>
      [] pos \in {6, 8} -> <<6, 30, 90, 270, 400, 550>>
      [] pos = 9 -> <<8, 40, 100, 300, 450, 600>>
      [] pos \in {11, 13} -> <<10, 50, 150, 450, 625, 750>>
      [] pos = 14 -> <<12, 60, 180, 500, 700, 900>>
      [] pos \in {16, 18} -> <<14, 70, 200, 550, 750, 950>>
      [] pos = 19 -> <<16, 80, 220, 600, 800, 1000>>
      [] pos \in {21, 23} -> <<18, 90, 250, 700, 875, 1050>>
      [] pos = 24 -> <<20, 100, 300, 750, 925, 1100>>
      [] pos \in {26, 27} -> <<22, 110, 330, 800, 975, 1150>>
      [] pos = 29 -> <<24, 120, 360, 850, 1025, 1200>>
      [] pos \in {31, 32} -> <<26, 130, 390, 900, 1100, 1275>>
      [] pos = 34 -> <<28, 150, 450, 1000, 1200, 1400>>
      [] pos = 37 -> <<35, 175, 500, 1100, 1300, 1500>>
      [] pos = 39 -> <<50, 200, 600, 1400, 1700, 2000>>
      [] OTHER -> <<0, 0, 0, 0, 0, 0>>

HOUSE_COST_BY_GROUP(group) ==
    CASE group \in {"brown", "light-blue"} -> 50
      [] group \in {"pink", "orange"} -> 100
      [] group \in {"red", "yellow"} -> 150
      [] group \in {"green", "dark-blue"} -> 200
      [] OTHER -> 0

group_positions(group) ==
    {pos \in Positions : TileGroup(pos) = group /\ TileType(pos) = "property"}

mortgage_value(pos) == TilePrice(pos) \div 2

-----------------------------------------------------------------------------
(* Names, connections and records                                          *)

Humans == {"A", "B", "C"}
Bots == {"Bot"}
Names == Humans \cup Bots
Sids == {"s1", "s2", "s3"}
Connections == Sids \cup {"s4"}     \* s4: a connection not opened yet

Player(cash, position) ==
    [cash |-> cash, position |-> position, in_jail |-> FALSE, jail_turns |-> 0,
     doubles_count |-> 0, jail_cards |-> 0, auto_mortgage |-> FALSE,
     auto_buy_houses |-> FALSE]

PropertyState == [owner |-> NONE, houses |-> 0, hotel |-> FALSE, mortgaged |-> FALSE]

Range(s) == {s[i] : i \in DOMAIN s}

RECURSIVE SeqSum(_)
SeqSum(s) == IF s = <<>> THEN 0 ELSE Head(s) + SeqSum(Tail(s))

Min(a, b) == IF a < b THEN a ELSE b
Max(a, b) == IF a > b THEN a ELSE b

find_player(gm, name) == name \in Range(gm.players)

Cur(gm) == gm.players[gm.current_turn + 1]

HasCur(gm) == gm.current_turn >= 0 /\ gm.current_turn < Len(gm.players)

-----------------------------------------------------------------------------
(* Debt ledger: _debt_add, _debt_total, _route_inflow                      *)

debt_add(gm, debtor, creditor, amount) ==
    IF amount <= 0 THEN gm
    ELSE LET arr == gm.debts[debtor]
             n == Len(arr)
         IN IF n > 0 /\ arr[n].creditor = creditor
            THEN [gm EXCEPT !.debts[debtor][n].amount = @ + amount]
            ELSE [gm EXCEPT !.debts[debtor] =
                     Append(arr, [creditor |-> creditor, amount |-> amount])]

\* the sum of the positive amounts of a debt queue
RECURSIVE queue_total(_)
queue_total(arr) ==
    IF arr = <<>> THEN 0 ELSE Max(0, Head(arr).amount) + queue_total(Tail(arr))

debt_total(gm, debtor) == queue_total(gm.debts[debtor])

\* the loop of _route_inflow over the receiver's debt records, FIFO
RECURSIVE route_loop(_, _, _, _)
route_loop(gm, debts, inflow, new_debts) ==
    IF debts = <<>>
    THEN [g |-> gm, inflow |-> inflow, new_debts |-> new_debts]
    ELSE LET rec == Head(debts)
         IN IF inflow <= 0
            THEN route_loop(gm, Tail(debts), inflow,
                     IF rec.amount > 0 THEN Append(new_debts, rec) ELSE new_debts)
            ELSE IF rec.amount <= 0
            THEN route_loop(gm, Tail(debts), inflow, new_debts)
            ELSE LET pay == Min(inflow, rec.amount)
                     g1 == IF find_player(gm, rec.creditor)
                           THEN [gm EXCEPT !.P[rec.creditor].cash = @ + pay]
                           ELSE gm
                     rem == rec.amount - pay
                 IN route_loop(g1, Tail(debts), inflow - pay,
                        IF rem > 0
                        THEN Append(new_debts, [creditor |-> rec.creditor, amount |-> rem])
                        ELSE new_debts)

\* an inflow that is handed to the receiver whole, whatever the receiver owes
route_inflow_unrouted(gm, receiver_name, amount) == [g |-> gm, retained |-> amount]

\* returns the game after routing and the amount the receiver retains
route_inflow(gm, receiver_name, amount) ==
    IF receiver_name = NONE THEN [g |-> gm, retained |-> amount]
    ELSE IF amount <= 0 THEN [g |-> gm, retained |-> 0]
    ELSE IF gm.debts[receiver_name] = <<>> THEN [g |-> gm, retained |-> amount]
    ELSE LET r == route_loop(gm, gm.debts[receiver_name], amount, <<>>)
         IN [g |-> [r.g EXCEPT !.debts[receiver_name] = r.new_debts],
             retained |-> Max(0, r.inflow)]

\* the recurring idiom  retained = _route_inflow(g, name, amt, ...); p.cash += retained
keep_retained(r, name) == [r.g EXCEPT !.P[name].cash = @ + r.retained]

credit_routed(gm, name, amount) == keep_retained(route_inflow(gm, name, amount), name)

\* the recurring idiom  pay_now = min(max(0, cash), due); cash -= pay_now;
\* if due - pay_now > 0: _debt_add(g, name, creditor, due - pay_now)
pay_now(gm, name, due) == Min(Max(0, gm.P[name].cash), due)

pay_partial(gm, name, creditor, due) ==
    debt_add([gm EXCEPT !.P[name].cash = @ - pay_now(gm, name, due)],
             name, creditor, due - pay_now(gm, name, due))

\* ... with the part paid credited to a receiver still in the game:
\* if pay_now > 0: receiver.cash += _route_inflow(g, receiver, pay_now)
pay_settle(gm, name, receiver, due, paid) ==
    debt_add(IF find_player(gm, receiver) /\ paid > 0
             THEN credit_routed([gm EXCEPT !.P[name].cash = @ - paid], receiver, paid)
             ELSE [gm EXCEPT !.P[name].cash = @ - paid],
             name, receiver, due - paid)

pay_to(gm, name, receiver, due) ==
    pay_settle(gm, name, receiver, due, pay_now(gm, name, due))

-----------------------------------------------------------------------------
(* Economic engine helpers                                                 *)

\* the positions of g.properties.items() (dict insertion order) owned by name
owned_seq(gm, name) ==
    SelectSeq(gm.porder, LAMBDA pos : gm.properties[pos].owner = name)

bcount(st) == IF st.hotel THEN 5 ELSE st.houses

is_monopoly(gm, owner, group) ==
    /\ group /= NONE
    /\ group_positions(group) /= {}
    /\ \A pos \in group_positions(group) :
          gm.properties[pos].owner = owner /\ ~gm.properties[pos].mortgaged

railroads_owned(gm, owner) ==
    Cardinality({pos \in Positions : /\ TileType(pos) = "railroad"
                                     /\ gm.properties[pos].owner = owner
                                     /\ ~gm.properties[pos].mortgaged})

utilities_owned(gm, owner) ==
    Cardinality({pos \in Positions : /\ TileType(pos) = "utility"
                                     /\ gm.properties[pos].owner = owner
                                     /\ ~gm.properties[pos].mortgaged})

total_worth(gm, name) ==
    LET owned == owned_seq(gm, name)
        val(pos) == (IF gm.properties[pos].mortgaged THEN 0 ELSE TilePrice(pos))
                    + (IF TileType(pos) = "property"
                       THEN HOUSE_COST_BY_GROUP(TileGroup(pos))
                              * (Max(0, gm.properties[pos].houses)
                                 + (IF gm.properties[pos].hotel THEN 1 ELSE 0))
                       ELSE 0)
    IN gm.P[name].cash + SeqSum([i \in DOMAIN owned |-> val(owned[i])])

\* math.ceil(principal * 0.1) on the board's mortgage values
unmortgage_payoff(pos) == mortgage_value(pos) + ((mortgage_value(pos) + 9) \div 10)

\* _auto_mortgage_for_cash: eligibility and the sort key of one owned property
can_auto_mortgage(gm, name, pos) ==
    /\ gm.properties[pos].owner = name
    /\ ~gm.properties[pos].mortgaged
    /\ gm.properties[pos].houses = 0 /\ ~gm.properties[pos].hotel
    /\ \A q \in group_positions(TileGroup(pos)) :
          ~(gm.properties[q].owner = name
            /\ (gm.properties[q].houses > 0 \/ gm.properties[q].hotel))

is_singleton(gm, name, pos) ==
    LET gp == group_positions(TileGroup(pos))
    IN IF gp /= {} THEN ~(\A q \in gp : gm.properties[q].owner = name) ELSE TRUE

\* key=lambda x: (not x[3], x[1]): Python compares the tuples lexicographically
\* (False < True); mortgage values stay below 1000, so one integer orders alike
mortgage_key(gm, name, pos) ==
    (IF is_singleton(gm, name, pos) THEN 0 ELSE 1000) + mortgage_value(pos)

\* the first element of s with the greatest key
first_max(gm, name, s) ==
    CHOOSE i \in DOMAIN s :
       /\ \A j \in DOMAIN s : mortgage_key(gm, name, s[j]) <= mortgage_key(gm, name, s[i])
       /\ \A j \in 1..(i - 1) : mortgage_key(gm, name, s[j]) < mortgage_key(gm, name, s[i])

remove_at(s, i) == [k \in 1..(Len(s) - 1) |-> IF k < i THEN s[k] ELSE s[k + 1]]

\* list.sort(key=..., reverse=True): descending by key, stable among equal keys
RECURSIVE sort_desc(_, _, _)
sort_desc(gm, name, s) ==
    IF s = <<>> THEN <<>>
    ELSE <<s[first_max(gm, name, s)]>>
            \o sort_desc(gm, name, remove_at(s, first_max(gm, name, s)))

mortgage_order(gm, name) ==
    sort_desc(gm, name,
        SelectSeq(gm.porder, LAMBDA pos : can_auto_mortgage(gm, name, pos)))

RECURSIVE mortgage_loop(_, _, _, _)
mortgage_loop(gm, name, todo, needed_amount) ==
    IF todo = <<>> \/ gm.P[name].cash >= needed_amount THEN gm
    ELSE LET pos == Head(todo)
             g1 == [gm EXCEPT !.properties[pos].mortgaged = TRUE]
         IN mortgage_loop(credit_routed(g1, name, mortgage_value(pos)),
                          name, Tail(todo), needed_amount)

auto_mortgage_for_cash(gm, name, needed_amount) ==
    IF ~gm.P[name].auto_mortgage THEN gm
    ELSE mortgage_loop(gm, name, mortgage_order(gm, name), needed_amount)

\* _auto_sell_houses_for_cash
built_seq(gm, name) ==
    SelectSeq(gm.porder, LAMBDA pos : /\ gm.properties[pos].owner = name
                                      /\ (gm.properties[pos].houses > 0
                                          \/ gm.properties[pos].hotel))

\* groups_with_buildings keys, in order of first appearance
RECURSIVE group_order(_, _)
group_order(s, seen) ==
    IF s = <<>> THEN <<>>
    ELSE IF TileGroup(Head(s)) \in seen THEN group_order(Tail(s), seen)
    ELSE <<TileGroup(Head(s))>> \o group_order(Tail(s), seen \cup {TileGroup(Head(s))})

sell_target(needed_amount) == IF needed_amount > 0 THEN needed_amount ELSE 0

\* properties.sort(key=count, reverse=True)[0]: the first maximum
most_built(gm, members) ==
    members[CHOOSE i \in DOMAIN members :
              /\ \A j \in DOMAIN members :
                    bcount(gm.properties[members[j]]) <= bcount(gm.properties[members[i]])
              /\ \A j \in 1..(i - 1) :
                    bcount(gm.properties[members[j]]) < bcount(gm.properties[members[i]])]

\* the hotel, or one house, of pos sold at half price
sell_one(gm, name, pos) ==
    IF gm.properties[pos].hotel
    THEN credit_routed([gm EXCEPT !.properties[pos].hotel = FALSE,
                                  !.properties[pos].houses = 4],
                       name, (HOUSE_COST_BY_GROUP(TileGroup(pos)) * 5) \div 2)
    ELSE IF gm.properties[pos].houses > 0
    THEN credit_routed([gm EXCEPT !.properties[pos].houses = @ - 1],
                       name, HOUSE_COST_BY_GROUP(TileGroup(pos)) \div 2)
    ELSE gm

\* one pass of "for group, properties in groups_with_buildings.items()": the
\* pass returns as soon as a sale brings the cash up to the target
RECURSIVE sell_pass(_, _, _, _, _)
RECURSIVE sell_step(_, _, _, _, _, _)
sell_pass(gm, name, groups, snap, needed_amount) ==
    IF groups = <<>> THEN gm
    ELSE sell_step(gm, name, groups, snap, needed_amount,
             most_built(gm, SelectSeq(snap, LAMBDA pos : TileGroup(pos) = Head(groups))))

sell_after(g1, sold, name, groups, snap, needed_amount) ==
    IF sold /\ ~(g1.P[name].cash < sell_target(needed_amount))
    THEN g1
    ELSE sell_pass(g1, name, Tail(groups), snap, needed_amount)

sell_step(gm, name, groups, snap, needed_amount, pos) ==
    sell_after(sell_one(gm, name, pos), bcount(gm.properties[pos]) > 0,
               name, groups, snap, needed_amount)

RECURSIVE sell_loop(_, _, _)
sell_loop(gm, name, needed_amount) ==
    IF ~(gm.P[name].cash < sell_target(needed_amount)) THEN gm
    ELSE LET snap == built_seq(gm, name)
         IN IF snap = <<>> THEN gm
            ELSE sell_loop(sell_pass(gm, name, group_order(snap, {}), snap, needed_amount),
                           name, needed_amount)

auto_sell_houses_for_cash(gm, name, needed_amount) ==
    IF ~gm.P[name].auto_mortgage THEN gm
    ELSE sell_loop(gm, name, needed_amount)

sell_if_negative(gm, name) ==
    IF gm.P[name].cash < 0 THEN auto_sell_houses_for_cash(gm, name, 0) ELSE gm

handle_negative_cash(gm, name) ==
    IF ~gm.P[name].auto_mortgage \/ gm.P[name].cash >= 0 THEN gm
    ELSE sell_if_negative(auto_mortgage_for_cash(gm, name, -gm.P[name].cash), name)

\* the ascending list of a set of positions (list order of _group_positions)
RECURSIVE asc_seq(_)
asc_seq(S) ==
    IF S = {} THEN <<>>
    ELSE LET m == CHOOSE x \in S : \A y \in S : x <= y
         IN <<m>> \o asc_seq(S \ {m})

RECURSIVE unmortgage_loop(_, _, _)
unmortgage_loop(gm, name, todo) ==
    IF todo = <<>> THEN gm
    ELSE LET pos == Head(todo)
             st == gm.properties[pos]
             payoff == unmortgage_payoff(pos)
         IN IF st.owner = name /\ st.mortgaged /\ gm.P[name].cash >= payoff
            THEN unmortgage_loop([gm EXCEPT !.P[name].cash = @ - payoff,
                                            !.properties[pos].mortgaged = FALSE],
                                 name, Tail(todo))
            ELSE unmortgage_loop(gm, name, Tail(todo))

auto_unmortgage_for_houses(gm, name, group) ==
    IF ~gm.P[name].auto_mortgage \/ group = NONE THEN gm
    ELSE unmortgage_loop(gm, name, asc_seq(group_positions(group)))

\* can_build_even / can_build_even_local: hotel counts as 5
can_build_even(gm, group, target_pos, delta) ==
    LET gp == group_positions(group)
        cnt(pos) == gm.properties[pos].houses
                    + (IF gm.properties[pos].hotel THEN 5 ELSE 0)
                    + (IF pos = target_pos THEN delta ELSE 0)
    IN /\ group /= NONE
       /\ \A p1, p2 \in gp : cnt(p1) - cnt(p2) <= 1
       /\ \A p1 \in gp : 0 <= cnt(p1) /\ cnt(p1) <= 5

\* one "for i, s in enumerate(states)" pass of _auto_buy_houses_even
RECURSIVE buy_even_pass(_, _, _, _, _)
buy_even_pass(gm, name, group, todo, progressed) ==
    IF todo = <<>> THEN [g |-> gm, progressed |-> progressed]
    ELSE LET pos == Head(todo)
             st == gm.properties[pos]
             house_cost == HOUSE_COST_BY_GROUP(group)
         IN IF st.hotel \/ st.houses >= 4 \/ ~can_build_even(gm, group, pos, 1)
            THEN buy_even_pass(gm, name, group, Tail(todo), progressed)
            ELSE LET g1 == [gm EXCEPT !.properties[pos].houses = @ + 1,
                                      !.P[name].cash = @ - house_cost]
                 IN IF g1.P[name].cash < house_cost
                    THEN [g |-> g1, progressed |-> TRUE]
                    ELSE buy_even_pass(g1, name, group, Tail(todo), TRUE)

RECURSIVE buy_even_loop(_, _, _)
buy_even_loop(gm, name, group) ==
    IF gm.P[name].cash < HOUSE_COST_BY_GROUP(group) THEN gm
    ELSE LET r == buy_even_pass(gm, name, group, asc_seq(group_positions(group)), FALSE)
         IN IF r.progressed THEN buy_even_loop(r.g, name, group) ELSE r.g

auto_buy_houses_even(gm, name, group) ==
    IF \/ group = NONE
       \/ group_positions(group) = {}
       \/ ~(\A pos \in group_positions(group) : gm.properties[pos].owner = name)
       \/ \E pos \in group_positions(group) : gm.properties[pos].mortgaged
       \/ HOUSE_COST_BY_GROUP(group) <= 0
    THEN gm
    ELSE buy_even_loop(gm, name, group)

-----------------------------------------------------------------------------
(* Instruments charged at the start of a turn                              *)

\* _process_recurring_for
RECURSIVE recurring_loop(_, _, _, _)
recurring_loop(gm, payer, todo, remaining) ==
    IF todo = <<>> THEN [gm EXCEPT !.recurring = remaining]
    ELSE LET r == Head(todo)
         IN IF r.from /= payer
            THEN recurring_loop(gm, payer, Tail(todo), Append(remaining, r))
            ELSE recurring_loop(
                     IF find_player(gm, payer) /\ find_player(gm, r.to) /\ r.amount > 0
                     THEN pay_to(gm, payer, r.to, r.amount)
                     ELSE gm,
                     payer, Tail(todo),
                     IF r.turns_left - 1 > 0
                     THEN Append(remaining, [r EXCEPT !.turns_left = @ - 1])
                     ELSE remaining)

process_recurring_for(gm, payer) == recurring_loop(gm, payer, gm.recurring, <<>>)

\* int(round(x)) for x = n / 100: Python rounds halves to the even integer
round_div100(n) ==
    LET q == n \div 100
        r == n % 100
    IN IF r < 50 THEN q ELSE IF r > 50 THEN q + 1 ELSE IF q % 2 = 0 THEN q ELSE q + 1

bond_coupon(principal, rate, period) == round_div100(principal * rate * Max(1, period))

RECURSIVE bonds_loop(_, _, _)
bonds_loop(gm, owner, todo) ==
    IF todo = <<>> THEN gm
    ELSE LET inv == Head(todo)
             coupon == bond_coupon(inv.principal, gm.bonds[owner].rate_percent,
                                   gm.bonds[owner].period_turns)
         IN IF inv.owner /= owner \/ inv.principal <= 0 \/ coupon <= 0
               \/ ~find_player(gm, owner) \/ ~find_player(gm, inv.investor)
            THEN bonds_loop(gm, owner, Tail(todo))
            ELSE bonds_loop(pay_to(gm, owner, inv.investor, coupon), owner, Tail(todo))

\* _process_bonds_for
process_bonds_for(gm, owner) ==
    LET st == gm.bonds[owner]
        cnt == gm.turn_counts[owner]
        due_now == (cnt % Max(1, st.period_turns)) = 0
        g1 == [gm EXCEPT !.turn_counts[owner] = cnt + 1]
    IN IF st.rate_percent <= 0 THEN gm
       ELSE IF ~due_now THEN g1
       ELSE bonds_loop(g1, owner, gm.bond_investments)

-----------------------------------------------------------------------------
(* Bankruptcy and end of game                                              *)

\* g.game_over is None (over = FALSE) or a summary dict (over = TRUE)
NoGameOver == [over |-> FALSE, winner |-> NONE]

LastAction(type, by, reason) == [type |-> type, by |-> by, reason |-> reason]

check_and_finalize_game(gm) ==
    IF gm.game_over.over THEN gm
    ELSE IF Len(gm.players) <= 1
    THEN [gm EXCEPT !.game_over =
             [over |-> TRUE,
              winner |-> IF Len(gm.players) > 0 THEN gm.players[1] ELSE NONE]]
    ELSE gm

\* the "release properties" loop shared by bankruptcy, vote-kick and timeout
release_properties(gm, name) ==
    [gm EXCEPT !.properties =
        [pos \in DOMAIN gm.properties |->
            IF gm.properties[pos].owner = name THEN PropertyState
            ELSE gm.properties[pos]]]

remove_player(players, name) == SelectSeq(players, LAMBDA n : n /= name)

handle_bankruptcy(gm, player_name) ==
    IF ~find_player(gm, player_name) THEN gm
    ELSE LET g1 == release_properties([gm EXCEPT !.P[player_name].cash = 0], player_name)
             np == remove_player(g1.players, player_name)
             g2 == [g1 EXCEPT
                      !.players = np,
                      !.recurring = SelectSeq(g1.recurring,
                          LAMBDA r : r.from /= player_name /\ r.to /= player_name),
                      !.current_turn = IF Len(np) = 0 THEN 0
                                       ELSE g1.current_turn % Len(np),
                      !.last_action = LastAction("bankrupt", player_name, NONE)]
         IN check_and_finalize_game(g2)

-----------------------------------------------------------------------------
(* Chance / Community Chest: _draw_card, _apply_card                       *)

Card(kind, target, amount, house, hotel) ==
    [kind |-> kind, target |-> target, amount |-> amount, house |-> house, hotel |-> hotel]

ChanceCards ==
    { Card("advance_to", "GO", 0, 0, 0),
      Card("advance_to", "Illinois Avenue", 0, 0, 0),
      Card("advance_to", "St. Charles Place", 0, 0, 0),
      Card("nearest", "railroad", 0, 0, 0),
      Card("nearest", "utility", 0, 0, 0),
      Card("goto_jail", NONE, 0, 0, 0),
      Card("collect", NONE, 50, 0, 0),
      Card("pay", NONE, 15, 0, 0),
      Card("repairs", NONE, 0, 25, 100),
      Card("jail_free", NONE, 0, 0, 0) }

ChestCards ==
    { Card("advance_to", "GO", 0, 0, 0),
      Card("goto_jail", NONE, 0, 0, 0),
      Card("collect", NONE, 200, 0, 0),
      Card("pay", NONE, 50, 0, 0),
      Card("repairs", NONE, 0, 40, 115),
      Card("jail_free", NONE, 0, 0, 0) }

NoCard == Card(NONE, NONE, 0, 0, 0)

draw_card(deck) == IF deck = "chance" THEN ChanceCards ELSE ChestCards

\* no tile of monopoly_tiles() is named "Illinois Avenue" or "St. Charles
\* Place": the lookup returns None (-1 here)
tile_pos_by_name(name) == -1

nearest_pos(start, ttype) ==
    LET candidates == {pos \in Positions : TileType(pos) = ttype}
        ahead == {pos \in candidates : pos > start}
        least(S) == CHOOSE x \in S : \A y \in S : x <= y
    IN IF ahead /= {} THEN least(ahead) ELSE least(candidates)

\* the special-rent branches of a "nearest" card
special_rent(gm, name, rent) ==
    LET pos == gm.P[name].position
        st == IF pos \in Ownable THEN gm.properties[pos] ELSE PropertyState
    IN IF st.owner /= NONE /\ st.owner /= name /\ ~st.mortgaged
       THEN pay_to(gm, name, st.owner, rent)
       ELSE gm

rr_rent(count) ==
    CASE count = 1 -> 25 [] count = 2 -> 50 [] count = 3 -> 100 [] count = 4 -> 200
      [] OTHER -> 25

clamp_roll(last_roll) == Max(2, Min(12, last_roll))

\* a "nearest" card: the token goes to np, past GO if np is not ahead
advance_nearest(gm, name, np) ==
    [(IF np <= gm.P[name].position THEN credit_routed(gm, name, GO_SALARY) ELSE gm)
        EXCEPT !.P[name].position = np]

\* ... and pays the card's special rent there
nearest_rent(gm, name, np, target, last_roll) ==
    IF target = "railroad"
    THEN special_rent(gm, name, rr_rent(railroads_owned(gm, gm.properties[np].owner)) * 2)
    ELSE special_rent(gm, name, 10 * clamp_roll(last_roll))

repairs_total(gm, name, card) ==
    LET owned == owned_seq(gm, name)
        cost(pos) == IF gm.properties[pos].mortgaged THEN 0
                     ELSE card.house * Max(0, gm.properties[pos].houses)
                          + card.hotel * (IF gm.properties[pos].hotel THEN 1 ELSE 0)
    IN SeqSum([i \in DOMAIN owned |-> cost(owned[i])])

apply_card(gm, name, card, last_roll) ==
    CASE card.kind = "jail_free" ->
           [gm EXCEPT !.P[name].jail_cards = @ + 1]
      [] card.kind = "goto_jail" ->
           [gm EXCEPT !.P[name].position = JAIL_POS, !.P[name].in_jail = TRUE,
                      !.P[name].jail_turns = 0]
      [] card.kind = "advance_to" ->
           IF card.target = "GO"
           THEN credit_routed([gm EXCEPT !.P[name].position = 0], name, GO_SALARY)
           ELSE IF tile_pos_by_name(card.target) /= -1
           THEN [(IF gm.P[name].position > tile_pos_by_name(card.target)
                  THEN credit_routed(gm, name, GO_SALARY) ELSE gm)
                    EXCEPT !.P[name].position = tile_pos_by_name(card.target)]
           ELSE gm
      [] card.kind = "collect" -> credit_routed(gm, name, card.amount)
      [] card.kind = "pay" -> pay_partial(gm, name, BANK, card.amount)
      [] card.kind = "repairs" ->
           LET total == repairs_total(gm, name, card)
           IN IF total > 0 THEN pay_partial(gm, name, BANK, total) ELSE gm
      [] card.kind = "nearest" ->
           nearest_rent(
               advance_nearest(gm, name, nearest_pos(gm.P[name].position, card.target)),
               name, nearest_pos(gm.P[name].position, card.target), card.target, last_roll)
      [] OTHER -> gm

-----------------------------------------------------------------------------
(* Rent: _handle_rent                                                      *)

\* the column of RENT_TABLE a property's buildings select
rent_level(st) ==
    IF st.hotel THEN 5 ELSE IF st.houses > 0 THEN Max(0, Min(4, st.houses)) ELSE 0

base_rent(gm, pos, last_roll) ==
    LET st == gm.properties[pos]
    IN CASE TileType(pos) = "property" ->
              RENT_TABLE(pos)[rent_level(st) + 1]
                 * (IF rent_level(st) = 0 /\ is_monopoly(gm, st.owner, TileGroup(pos))
                    THEN 2 ELSE 1)
         [] TileType(pos) = "railroad" -> rr_rent(railroads_owned(gm, st.owner))
         [] TileType(pos) = "utility" ->
              (IF utilities_owned(gm, st.owner) >= 2 THEN 10 ELSE 4) * clamp_roll(last_roll)
         [] OTHER -> 0

\* the loop over g.property_rentals that redirects a share of the rent
RECURSIVE rental_loop(_, _, _, _, _)
rental_loop(gm, i, pos, rent, redirected) ==
    IF i > Len(gm.property_rentals) THEN [g |-> gm, redirected |-> redirected]
    ELSE LET rental == gm.property_rentals[i]
         IN IF /\ pos \in rental.properties /\ rental.turns_left > 0
               /\ rental.renter /= NONE
               /\ 0 < rental.percentage /\ rental.percentage <= 100
               /\ find_player(gm, rental.renter)
            THEN LET amount == (rent * rental.percentage) \div 100
                     g1 == credit_routed(gm, rental.renter, amount)
                     g2 == [g1 EXCEPT !.property_rentals[i].total_received = @ + amount,
                                      !.property_rentals[i].last_payment = amount,
                                      !.property_rentals[i].last_payment_turn = gm.turns]
                 IN rental_loop(g2, i + 1, pos, rent, redirected + amount)
            ELSE rental_loop(gm, i + 1, pos, rent, redirected)

rent_applies(gm, name, pos) ==
    /\ pos \in Ownable
    /\ gm.properties[pos].owner /= NONE
    /\ gm.properties[pos].owner /= name
    /\ ~gm.properties[pos].mortgaged
    /\ find_player(gm, gm.properties[pos].owner)

\* "Player pays what they can now; if short, record debt for remainder",
\* after the optional auto-liquidation
rent_charge_payer(gm, name, owner, due) ==
    pay_partial(IF gm.P[name].cash < due
                THEN auto_mortgage_for_cash(
                         auto_sell_houses_for_cash(gm, name, due), name, due)
                ELSE gm,
                name, owner, due)

\* "Owner receives the remaining rent" (what the rentals did not redirect),
\* before the payer is charged the whole rent
rent_credit_owner(r, owner, rent) ==
    IF rent - r.redirected > 0
    THEN credit_routed(r.g, owner, rent - r.redirected) ELSE r.g

rent_collect(gm, name, pos, rent) ==
    IF rent <= 0 THEN gm
    ELSE rent_charge_payer(
             rent_credit_owner(rental_loop(gm, 1, pos, rent, 0),
                               gm.properties[pos].owner, rent),
             name, gm.properties[pos].owner, rent)

handle_rent(gm, name, pos, last_roll) ==
    IF ~rent_applies(gm, name, pos) THEN gm
    ELSE rent_collect(gm, name, pos, base_rent(gm, pos, last_roll))

-----------------------------------------------------------------------------
(* Turn machine: game_action roll_dice                                     *)

\* the throws explored: two doubles and one plain throw
DicePairs == {<<1, 1>>, <<3, 4>>, <<6, 6>>}

tax_amount(gm, name, pos) ==
    IF pos = 4 THEN Min(INCOME_TAX_CAP, total_worth(gm, name) \div 10)
    ELSE IF pos = 38 THEN LUXURY_TAX ELSE 0

apply_tax(gm, name, pos) ==
    LET amount == tax_amount(gm, name, pos)
    IN IF amount /= 0 THEN pay_partial(gm, name, BANK, amount) ELSE gm

\* roll_dice up to the awaited "dice_rolled" sound emit: the rolls_left gate,
\* start-of-turn bookkeeping, rolled_this_turn.  out tells how the handler went on.
\* (a handler that would not mark the turn before the cash check)
rolled_this_turn_unset(gm) == gm

set_rolled_this_turn(gm) == [gm EXCEPT !.rolled_this_turn = TRUE]

\* "Process recurring payments at start of turn (first roll only)"
roll_charge(gm, cur) ==
    set_rolled_this_turn(process_bonds_for(process_recurring_for(gm, cur), cur))

\* the dice are thrown: rolled_this_turn and last_action are set
roll_thrown(gm, cur, charged) ==
    [g |-> [gm EXCEPT !.rolled_this_turn = TRUE,
                      !.last_action = LastAction("rolled", cur, NONE)],
     out |-> "rolled", charged |-> charged]

\* "If recurring payments caused negative balance, deny the roll"
roll_charged(g1, cur) ==
    IF g1.P[cur].cash < 0
    THEN [g |-> [g1 EXCEPT !.last_action =
                    LastAction("roll_denied", cur, "negative_after_recurring")],
          out |-> "roll_denied", charged |-> TRUE]
    ELSE roll_thrown(g1, cur, TRUE)

roll_begin(gm) ==
    IF gm.rolls_left <= 0
    THEN [g |-> [gm EXCEPT !.last_action = LastAction("no_rolls", Cur(gm), NONE)],
          out |-> "no_rolls", charged |-> FALSE]
    ELSE IF ~gm.rolled_this_turn
    THEN roll_charged(roll_charge(gm, Cur(gm)), Cur(gm))
    ELSE roll_thrown(gm, Cur(gm), FALSE)

\* the jail branch; stays tells that the handler returns without moving
jail_step(gm, cur, d1, d2) ==
    IF ~gm.P[cur].in_jail THEN [g |-> gm, stays |-> FALSE]
    ELSE IF d1 = d2
    THEN [g |-> [gm EXCEPT !.P[cur].in_jail = FALSE, !.P[cur].jail_turns = 0],
          stays |-> FALSE]
    ELSE LET g1 == [gm EXCEPT !.P[cur].jail_turns = @ + 1]
         IN IF g1.P[cur].jail_turns < 3
            THEN [g |-> [g1 EXCEPT !.rolls_left = 0], stays |-> TRUE]
            ELSE [g |-> [pay_partial(g1, cur, BANK, JAIL_FEE) EXCEPT
                            !.P[cur].in_jail = FALSE, !.P[cur].jail_turns = 0],
                  stays |-> FALSE]

\* the triples rule; jailed tells that the handler returns without moving
TRIPLES == 3

\* (a handler without the triples rule)
doubles_step_no_triples(gm, cur, d1, d2, was_in_jail) ==
    IF d1 = d2 /\ ~was_in_jail
    THEN [g |-> [gm EXCEPT !.P[cur].doubles_count = @ + 1], jailed |-> FALSE]
    ELSE [g |-> [gm EXCEPT !.P[cur].doubles_count = 0], jailed |-> FALSE]

doubles_step(gm, cur, d1, d2, was_in_jail) ==
    IF d1 = d2 /\ ~was_in_jail
    THEN LET g1 == [gm EXCEPT !.P[cur].doubles_count = @ + 1]
         IN IF g1.P[cur].doubles_count >= TRIPLES
            THEN [g |-> [g1 EXCEPT !.P[cur].position = JAIL_POS,
                                   !.P[cur].in_jail = TRUE,
                                   !.P[cur].jail_turns = 0,
                                   !.P[cur].doubles_count = 0,
                                   !.rolls_left = 0],
                  jailed |-> TRUE]
            ELSE [g |-> g1, jailed |-> FALSE]
    ELSE [g |-> [gm EXCEPT !.P[cur].doubles_count = 0], jailed |-> FALSE]

\* "Rolls remaining logic"
\* (a handler that would grant the extra roll for any doubles)
rolls_after_doubles(d1, d2, was_in_jail) == IF d1 = d2 THEN 1 ELSE 0

rolls_after(d1, d2, was_in_jail) == IF d1 = d2 /\ ~was_in_jail THEN 1 ELSE 0

\* "Move": the token advances and collects the salary when it passes GO
move_token(gm, cur, roll) ==
    [(IF gm.P[cur].position + roll >= BOARD_LEN
      THEN credit_routed(gm, cur, GO_SALARY) ELSE gm)
        EXCEPT !.P[cur].position = (gm.P[cur].position + roll) % BOARD_LEN]

\* rent on the tile the token rests on, then the rolls_left update; cancel
\* tells whether the handler reaches the vote-kick cancellation
land_rent(gm, cur, d1, d2, was_in_jail) ==
    [g |-> [handle_rent(gm, cur, gm.P[cur].position, d1 + d2)
               EXCEPT !.rolls_left = rolls_after(d1, d2, was_in_jail)],
     cancel |-> TRUE]

\* after a card: jailed by it the handler returns; moved by it onto a tax
\* tile the tax is charged
land_card(gm, cur, d1, d2, was_in_jail) ==
    IF gm.P[cur].in_jail
    THEN [g |-> [gm EXCEPT !.rolls_left = 0], cancel |-> FALSE]
    ELSE land_rent(IF TileType(gm.P[cur].position) = "tax"
                   THEN apply_tax(gm, cur, gm.P[cur].position) ELSE gm,
                   cur, d1, d2, was_in_jail)

\* the tile effects at the token's new position
land(gm, cur, d1, d2, card, was_in_jail) ==
    LET ttype == TileType(gm.P[cur].position)
    IN IF ttype = "gotojail"
       THEN [g |-> [gm EXCEPT !.P[cur].position = JAIL_POS, !.P[cur].in_jail = TRUE,
                              !.P[cur].jail_turns = 0, !.rolls_left = 0],
             cancel |-> FALSE]
       ELSE IF ttype \in {"chance", "chest"}
       THEN land_card(apply_card(gm, cur, card, d1 + d2), cur, d1, d2, was_in_jail)
       ELSE land_rent(IF ttype = "tax" THEN apply_tax(gm, cur, gm.P[cur].position) ELSE gm,
                      cur, d1, d2, was_in_jail)

move_and_land(gm, cur, d1, d2, card, was_in_jail) ==
    land(move_token(gm, cur, d1 + d2), cur, d1, d2, card, was_in_jail)

\* roll_dice after the awaited sound emit, for the captured player cur
roll_after_doubles(t, cur, d1, d2, card, was_in_jail) ==
    IF t.jailed THEN [g |-> t.g, cancel |-> FALSE]
    ELSE move_and_land(t.g, cur, d1, d2, card, was_in_jail)

roll_after_jail(j, cur, d1, d2, card, was_in_jail) ==
    IF j.stays THEN [g |-> j.g, cancel |-> FALSE]
    ELSE roll_after_doubles(doubles_step(j.g, cur, d1, d2, was_in_jail),
                            cur, d1, d2, card, was_in_jail)

roll_finish(gm, cur, d1, d2, card) ==
    roll_after_jail(jail_step(gm, cur, d1, d2), cur, d1, d2, card, gm.P[cur].in_jail)

\* the deck a roll draws from, if it lands on a card tile
card_choices(gm, cur, d1, d2) ==
    LET p == gm.P[cur]
        stays == p.in_jail /\ d1 /= d2 /\ p.jail_turns + 1 < 3
        jailed == d1 = d2 /\ ~p.in_jail /\ p.doubles_count + 1 >= TRIPLES
        ttype == TileType((p.position + d1 + d2) % BOARD_LEN)
    IN IF ~stays /\ ~jailed /\ ttype \in {"chance", "chest"}
       THEN draw_card(ttype) ELSE {NoCard}

-----------------------------------------------------------------------------
(* game_action: actor resolution, the turn-bound gate, the turn handlers    *)

\* f"User-{sid[:4]}"
DefaultName(sid) ==
    CASE sid = "s1" -> "User-s1" [] sid = "s2" -> "User-s2"
      [] sid = "s3" -> "User-s3" [] OTHER -> "User-s4"

\* l.sid_to_name is a dict: a sequence of [sid, name] in insertion order
sid_name(lb, sid) ==
    IF \E i \in DOMAIN lb.sid_to_name : lb.sid_to_name[i].sid = sid
    THEN LET i == CHOOSE i \in DOMAIN lb.sid_to_name : lb.sid_to_name[i].sid = sid
         IN lb.sid_to_name[i].name
    ELSE NONE

\* USERNAMES.get(sid) or l.sid_to_name.get(sid) or f"User-{sid[:4]}"
actor_of(lb, un, sid) ==
    IF un[sid] /= "" THEN un[sid]
    ELSE IF sid_name(lb, sid) /= NONE THEN sid_name(lb, sid)
    ELSE DefaultName(sid)

turn_bound ==
    {"roll_dice", "buy_property", "end_turn", "use_jail_card",
     "mortgage", "unmortgage", "buy_house", "sell_house", "buy_hotel", "sell_hotel"}

\* "allow anyone to roll if it's a single player game"
single_player_roll(gm, t) == t = "roll_dice" /\ Len(gm.players) = 1

is_turn_actor(gm, actor, t) == actor = Cur(gm) \/ single_player_roll(gm, t)

gate_rejects(gm, actor, t) == t \in turn_bound /\ ~is_turn_actor(gm, actor, t)

not_your_turn(gm, actor, t) ==
    [gm EXCEPT !.last_action = LastAction("not_your_turn", actor, t)]

\* "Any activity cancels kick votes/timer against current player"
NoDeadline == -1

cancel_kick(lb, name) ==
    [lb EXCEPT !.kick_votes[name] = {},
               !.kick_target = IF @ = name THEN NONE ELSE @,
               !.kick_deadline = IF lb.kick_target = name THEN NoDeadline ELSE @]

\* roll_dice run to completion (no other handler between its awaits)
roll_resume(b, cur, d1, d2, card) ==
    IF b.out /= "rolled" THEN [g |-> b.g, cancel |-> FALSE]
    ELSE roll_finish(b.g, cur, d1, d2, card)

roll_dice(gm, d1, d2, card) == roll_resume(roll_begin(gm), Cur(gm), d1, d2, card)

\* g.properties[pos] = st: a new key goes to the end of the dict
set_owner(gm, pos, name) ==
    [gm EXCEPT !.properties[pos].owner = name,
               !.porder = IF pos \in Range(@) THEN @ ELSE Append(@, pos)]

completes_set(gm, name, pos) ==
    /\ TileGroup(pos) /= NONE
    /\ \A pp \in group_positions(TileGroup(pos)) : gm.properties[pp].owner = name

\* "auto-buy houses evenly" once a purchase completes a colour set
purchase_build(gm, name, pos) ==
    IF completes_set(gm, name, pos) /\ gm.P[name].auto_buy_houses
    THEN auto_buy_houses_even(auto_unmortgage_for_houses(gm, name, TileGroup(pos)),
                              name, TileGroup(pos))
    ELSE gm

purchase(gm, name, pos) ==
    purchase_build([set_owner(gm, pos, name) EXCEPT
                       !.P[name].cash = @ - TilePrice(pos),
                       !.last_action = LastAction("buy", name, NONE)],
                   name, pos)

buy_failed(gm, name, reason) ==
    [gm EXCEPT !.last_action = LastAction("buy_failed", name, reason)]

\* the cash check after "Try auto-mortgage if enabled"
buy_with_cash(gm, cur, p) ==
    IF gm.P[cur].cash >= TilePrice(p) THEN purchase(gm, cur, p)
    ELSE buy_failed(gm, cur, "insufficient_cash")

buy_property(gm) ==
    LET cur == Cur(gm)
        p == gm.P[cur].position
    IN IF p \notin Ownable THEN buy_failed(gm, cur, "not_buyable")
       ELSE IF gm.properties[p].owner /= NONE THEN buy_failed(gm, cur, "owned")
       ELSE IF TilePrice(p) <= 0 THEN buy_failed(gm, cur, "no_price")
       ELSE buy_with_cash(IF gm.P[cur].cash < TilePrice(p)
                          THEN auto_mortgage_for_cash(gm, cur, TilePrice(p)) ELSE gm,
                          cur, p)

\* _process_rental_turn_expiry
process_rental_turn_expiry(gm) ==
    LET dec(r) == IF r.turns_left > 0 THEN [r EXCEPT !.turns_left = @ - 1] ELSE r
        stepped == [i \in DOMAIN gm.property_rentals |-> dec(gm.property_rentals[i])]
        expired(i) == gm.property_rentals[i].turns_left > 0 /\ stepped[i].turns_left <= 0
        keep == SelectSeq([i \in DOMAIN stepped |-> i], LAMBDA i : ~expired(i))
    IN [gm EXCEPT !.property_rentals = [k \in DOMAIN keep |-> stepped[keep[k]]]]

\* end_turn: the jail normalisation, then the deny reasons
end_turn_normalise(gm) ==
    IF gm.P[Cur(gm)].in_jail /\ gm.rolls_left > 0
    THEN [gm EXCEPT !.rolls_left = 0] ELSE gm

\* (a handler that would not look at rolls_left)
deny_reasons_no_roll_yet(gm) ==
    IF ~gm.rolled_this_turn /\ ~gm.P[Cur(gm)].in_jail THEN {"no_roll_yet"} ELSE {}

deny_reasons(gm) ==
    (IF ~gm.rolled_this_turn /\ ~gm.P[Cur(gm)].in_jail THEN {"no_roll_yet"} ELSE {})
    \cup (IF gm.rolls_left > 0 /\ ~gm.P[Cur(gm)].in_jail THEN {"rolls_left"} ELSE {})

negative_balance(gm, name) == gm.P[name].cash < 0

advance_turn(gm) ==
    LET cur == Cur(gm)
        prev == gm.current_turn
        nxt == (prev + 1) % Len(gm.players)
        g1 == [gm EXCEPT !.current_turn = nxt,
                         !.round = IF nxt = 0 /\ prev /= 0 THEN @ + 1 ELSE @,
                         !.rolls_left = 1,
                         !.rolled_this_turn = FALSE,
                         !.P[cur].doubles_count = 0,
                         !.turn_counts[cur] = @ + 1,
                         !.last_action = LastAction("end_turn", cur, NONE),
                         !.turns = @ + 1]
    IN check_and_finalize_game(process_rental_turn_expiry(g1))

end_turn(gm) ==
    LET cur == Cur(gm)
        g0 == end_turn_normalise(gm)
    IN IF deny_reasons(g0) /= {}
       THEN [g |-> [g0 EXCEPT !.last_action =
                       LastAction("end_turn_denied", cur, "deny_reasons")],
             ok |-> FALSE]
       ELSE IF negative_balance(g0, cur)
       THEN [g |-> [g0 EXCEPT !.last_action =
                       LastAction("end_turn_denied", cur, "negative_balance")],
             ok |-> FALSE]
       ELSE [g |-> advance_turn(g0), ok |-> TRUE]

\* "If it was current player's turn, advance to next"
bankrupt_next(g1, was_cur) ==
    IF was_cur /\ ~g1.game_over.over /\ Len(g1.players) > 0
    THEN [g1 EXCEPT !.current_turn = g1.current_turn % Len(g1.players),
                    !.rolls_left = 1]
    ELSE g1

\* bankrupt: any player may declare it, not just the current one
bankrupt(gm, actor) ==
    IF ~find_player(gm, actor)
    THEN [gm EXCEPT !.last_action = LastAction("bankrupt_failed", actor, "player_not_found")]
    ELSE bankrupt_next(handle_bankruptcy(gm, actor), actor = Cur(gm))

use_jail_card(gm) ==
    LET cur == Cur(gm)
    IN IF gm.P[cur].in_jail /\ gm.P[cur].jail_cards > 0
       THEN [gm EXCEPT !.P[cur].jail_cards = @ - 1,
                       !.P[cur].in_jail = FALSE,
                       !.P[cur].jail_turns = 0,
                       !.last_action = LastAction("used_jail_card", cur, NONE)]
       ELSE [gm EXCEPT !.last_action = LastAction("use_jail_card_denied", cur, NONE)]

-----------------------------------------------------------------------------
(* game_action: property management                                         *)

\* g.properties.get(pos) or PropertyState(pos=pos)
prop_at(gm, pos) == IF pos \in Ownable THEN gm.properties[pos] ELSE PropertyState

owns_group(gm, name, group) ==
    group /= NONE /\ \A p \in group_positions(group) : prop_at(gm, p).owner = name

group_mortgaged(gm, group) ==
    group /= NONE /\ \E p \in group_positions(group) : prop_at(gm, p).mortgaged

group_has_buildings(gm, group) ==
    group /= NONE /\ \E p \in group_positions(group) :
                        prop_at(gm, p).houses > 0 \/ prop_at(gm, p).hotel

denied(gm, t, name, reason) ==
    [gm EXCEPT !.last_action = LastAction(t, name, reason)]

mortgage(gm, cur, pos) ==
    LET st == prop_at(gm, pos)
    IN IF st.houses > 0 \/ st.hotel \/ group_has_buildings(gm, TileGroup(pos))
       THEN denied(gm, "mortgage_denied", cur, "has_buildings")
       ELSE IF st.mortgaged THEN denied(gm, "mortgage_denied", cur, "already_mortgaged")
       ELSE [credit_routed([gm EXCEPT !.properties[pos].mortgaged = TRUE],
                           cur, mortgage_value(pos))
               EXCEPT !.last_action = LastAction("mortgage", cur, NONE)]

unmortgage(gm, cur, pos) ==
    LET st == prop_at(gm, pos)
        payoff == unmortgage_payoff(pos)
    IN IF ~st.mortgaged THEN denied(gm, "unmortgage_denied", cur, "not_mortgaged")
       ELSE IF gm.P[cur].cash < payoff
       THEN denied(gm, "unmortgage_denied", cur, "insufficient_cash")
       ELSE [gm EXCEPT !.P[cur].cash = @ - payoff,
                       !.properties[pos].mortgaged = FALSE,
                       !.last_action = LastAction("unmortgage", cur, NONE)]

\* buy_house after the attempt to unmortgage the group
buy_house_checked(gm, cur, pos) ==
    LET group == TileGroup(pos)
        house_cost == HOUSE_COST_BY_GROUP(group)
        st == prop_at(gm, pos)
    IN IF \/ TileType(pos) /= "property" \/ group = NONE
          \/ ~owns_group(gm, cur, group) \/ group_mortgaged(gm, group)
       THEN denied(gm, "buy_house_denied", cur, "group_or_mortgage")
       ELSE IF st.hotel THEN denied(gm, "buy_house_denied", cur, "has_hotel")
       ELSE IF st.houses >= 4 THEN denied(gm, "buy_house_denied", cur, "max_houses")
       ELSE IF gm.P[cur].cash < house_cost
       THEN denied(gm, "buy_house_denied", cur, "insufficient_cash")
       ELSE IF ~can_build_even(gm, group, pos, 1)
       THEN denied(gm, "buy_house_denied", cur, "even_rule")
       ELSE [gm EXCEPT !.P[cur].cash = @ - house_cost,
                       !.properties[pos].houses = @ + 1,
                       !.last_action = LastAction("buy_house", cur, NONE)]

buy_house(gm, cur, pos) ==
    buy_house_checked(IF TileGroup(pos) /= NONE /\ group_mortgaged(gm, TileGroup(pos))
                      THEN auto_unmortgage_for_houses(gm, cur, TileGroup(pos)) ELSE gm,
                      cur, pos)

sell_house(gm, cur, pos) ==
    LET group == TileGroup(pos)
        house_cost == HOUSE_COST_BY_GROUP(group)
        st == prop_at(gm, pos)
    IN IF st.houses <= 0 \/ st.hotel
       THEN denied(gm, "sell_house_denied", cur, "no_houses_or_hotel")
       ELSE IF ~can_build_even(gm, group, pos, -1)
       THEN denied(gm, "sell_house_denied", cur, "even_rule")
       ELSE [credit_routed([gm EXCEPT !.properties[pos].houses = @ - 1],
                           cur, house_cost \div 2)
               EXCEPT !.last_action = LastAction("sell_house", cur, NONE)]

buy_hotel(gm, cur, pos) ==
    LET house_cost == HOUSE_COST_BY_GROUP(TileGroup(pos))
        st == prop_at(gm, pos)
    IN IF st.hotel \/ st.houses /= 4 \/ gm.P[cur].cash < house_cost
       THEN denied(gm, "buy_hotel_denied", cur, NONE)
       ELSE [gm EXCEPT !.P[cur].cash = @ - house_cost,
                       !.properties[pos].houses = 0,
                       !.properties[pos].hotel = TRUE,
                       !.last_action = LastAction("buy_hotel", cur, NONE)]

sell_hotel(gm, cur, pos) ==
    LET house_cost == HOUSE_COST_BY_GROUP(TileGroup(pos))
        st == prop_at(gm, pos)
    IN IF ~st.hotel THEN denied(gm, "sell_hotel_denied", cur, NONE)
       ELSE [credit_routed([gm EXCEPT !.properties[pos].hotel = FALSE,
                                      !.properties[pos].houses = 4],
                           cur, house_cost \div 2)
               EXCEPT !.last_action = LastAction("sell_hotel", cur, NONE)]

ManageTypes == {"mortgage", "unmortgage", "buy_house", "sell_house", "buy_hotel", "sell_hotel"}

\* f"{t}_denied"
denied_type(t) ==
    CASE t = "mortgage" -> "mortgage_denied"
      [] t = "unmortgage" -> "unmortgage_denied"
      [] t = "buy_house" -> "buy_house_denied"
      [] t = "sell_house" -> "sell_house_denied"
      [] t = "buy_hotel" -> "buy_hotel_denied"
      [] OTHER -> "sell_hotel_denied"

\* pos = int(action.get("pos") or cur.position); the owner check; the dispatch
manage(gm, t, pos_in) ==
    LET cur == Cur(gm)
        pos == IF pos_in = 0 THEN gm.P[cur].position ELSE pos_in
    IN IF prop_at(gm, pos).owner /= cur THEN denied(gm, denied_type(t), cur, "not_owner")
       ELSE CASE t = "mortgage" -> mortgage(gm, cur, pos)
              [] t = "unmortgage" -> unmortgage(gm, cur, pos)
              [] t = "buy_house" -> buy_house(gm, cur, pos)
              [] t = "sell_house" -> sell_house(gm, cur, pos)
              [] t = "buy_hotel" -> buy_hotel(gm, cur, pos)
              [] OTHER -> sell_hotel(gm, cur, pos)

\* toggle_auto_mortgage / toggle_auto_buy_houses: any player, for themselves
toggle_auto_mortgage(gm, actor) ==
    IF find_player(gm, actor)
    THEN [gm EXCEPT !.P[actor].auto_mortgage = ~@,
                    !.last_action = LastAction("auto_mortgage_toggled", actor, NONE)]
    ELSE gm

toggle_auto_buy_houses(gm, actor) ==
    IF find_player(gm, actor)
    THEN [gm EXCEPT !.P[actor].auto_buy_houses = ~@,
                    !.last_action = LastAction("auto_buy_houses_toggled", actor, NONE)]
    ELSE gm

-----------------------------------------------------------------------------
(* game_action: trades                                                      *)

\* one side of an offer: {"cash": n, "properties": [...], "jail_card": bool}
Side(cash, properties, jail_card) ==
    [cash |-> cash, properties |-> properties, jail_card |-> jail_card]

NoSide == Side(0, <<>>, FALSE)

NoTerms == [payments |-> <<>>, rentals |-> <<>>]

\* f"tr{len(pending_trades)}_{random.randint(1000,9999)}"
new_trade_id(gm, r) == [n |-> Len(gm.pending_trades), r |-> r]

find_trade(gm, trade_id) ==
    LET hits == SelectSeq(gm.pending_trades, LAMBDA o : o.id = trade_id)
    IN IF hits = <<>> THEN <<>> ELSE <<Head(hits)>>

without_trade(pending, trade_id) == SelectSeq(pending, LAMBDA o : o.id /= trade_id)

\* g.recent_trades[str(trade_id)] = dict(offer): the keys in insertion order
cache_trade(gm, trade_id) ==
    [gm EXCEPT !.recent_trades = IF trade_id \in Range(@) THEN @ ELSE Append(@, trade_id)]

\* "Trim cache size": the oldest keys go once there are more than RECENT_CAP
trim_recent(gm) ==
    [gm EXCEPT !.recent_trades =
        IF Len(@) > RECENT_CAP THEN SubSeq(@, Len(@) - RECENT_CAP + 1, Len(@)) ELSE @]

offer_trade(gm, actor, target, give, receive, terms, r) ==
    IF target = NONE \/ target = actor THEN [g |-> gm, ok |-> FALSE]
    ELSE IF give = NoSide /\ receive = NoSide THEN [g |-> gm, ok |-> FALSE]
    ELSE LET offer == [id |-> new_trade_id(gm, r), from |-> actor, to |-> target,
                       give |-> give, receive |-> receive, terms |-> terms]
         IN [g |-> [gm EXCEPT !.pending_trades = Append(@, offer),
                              !.last_action = LastAction("trade_offer", actor, NONE)],
             ok |-> TRUE]

\* "Transfer cash" and "Jail cards", when both parties are still players
trade_pay(gm, from, to, amount) ==
    credit_routed([gm EXCEPT !.P[from].cash = @ - amount], to, amount)

trade_jail_card(gm, from, to, offered) ==
    IF offered /\ gm.P[from].jail_cards > 0
    THEN [gm EXCEPT !.P[from].jail_cards = @ - 1, !.P[to].jail_cards = @ + 1]
    ELSE gm

trade_cash(gm, offer) ==
    trade_jail_card(
        trade_jail_card(
            trade_pay(trade_pay(gm, offer.from, offer.to, offer.give.cash),
                      offer.to, offer.from, offer.receive.cash),
            offer.from, offer.to, offer.give.jail_card),
        offer.to, offer.from, offer.receive.jail_card)

\* "Advanced terms: per-turn payments"
RECURSIVE trade_payments(_, _)
trade_payments(gm, payments) ==
    IF payments = <<>> THEN gm
    ELSE LET pm == Head(payments)
         IN IF pm.from = NONE \/ pm.to = NONE \/ pm.amount <= 0 \/ pm.turns <= 0
            THEN trade_payments(gm, Tail(payments))
            ELSE trade_payments(
                   [gm EXCEPT !.recurring = Append(@,
                       [from |-> pm.from, to |-> pm.to, amount |-> pm.amount,
                        turns_left |-> pm.turns])],
                   Tail(payments))

\* "Advanced terms: rental agreements"
RECURSIVE trade_rentals(_, _, _)
trade_rentals(gm, offer, rentals) ==
    IF rentals = <<>> THEN gm
    ELSE LET rt == Head(rentals)
             give_dir == rt.direction = "give"
         IN IF rt.properties = {} \/ rt.percentage <= 0 \/ rt.turns <= 0
            THEN trade_rentals(gm, offer, Tail(rentals))
            ELSE trade_rentals(
                   [gm EXCEPT !.property_rentals = Append(@,
                       [properties |-> rt.properties,
                        owner |-> IF give_dir THEN offer.from ELSE offer.to,
                        renter |-> IF give_dir THEN offer.to ELSE offer.from,
                        percentage |-> rt.percentage, turns_left |-> rt.turns,
                        total_received |-> 0, last_payment |-> 0,
                        last_payment_turn |-> -1])],
                   offer, Tail(rentals))

\* "Transfer properties"
RECURSIVE trade_properties(_, _, _)
trade_properties(gm, props, new_owner) ==
    IF props = <<>> THEN gm
    ELSE trade_properties(set_owner(gm, Head(props), new_owner), Tail(props), new_owner)

\* (a handler that would let anyone answer an offer)
is_recipient_unchecked(actor, offer) == TRUE

\* actor != offer.get("to")
is_recipient(actor, offer) == actor = offer.to

accept_trade(gm, actor, trade_id) ==
    LET found == find_trade(gm, trade_id)
    IN IF found = <<>>
       THEN [g |-> [gm EXCEPT !.last_action = LastAction("trade_missing", actor, NONE)],
             ok |-> FALSE]
       ELSE LET offer == found[1]
            IN IF ~is_recipient(actor, offer)
               THEN [g |-> [gm EXCEPT !.last_action =
                               LastAction("trade_accept_denied", actor, NONE)],
                     ok |-> FALSE]
               ELSE LET g1 == IF find_player(gm, offer.from) /\ find_player(gm, offer.to)
                              THEN trade_cash(gm, offer) ELSE gm
                        g2 == trade_payments(g1, offer.terms.payments)
                        g3 == trade_rentals(g2, offer, offer.terms.rentals)
                        g4 == trade_properties(g3, offer.give.properties, offer.to)
                        g5 == trade_properties(g4, offer.receive.properties, offer.from)
                        g6 == [g5 EXCEPT !.pending_trades = without_trade(@, trade_id),
                                         !.last_action =
                                             LastAction("trade_accepted", actor, NONE)]
                    IN [g |-> trim_recent(cache_trade(g6, trade_id)), ok |-> TRUE]

decline_trade(gm, actor, trade_id) ==
    LET found == find_trade(gm, trade_id)
    IN IF found = <<>>
       THEN [gm EXCEPT !.last_action = LastAction("trade_missing", actor, NONE)]
       ELSE IF ~is_recipient(actor, found[1])
       THEN [gm EXCEPT !.last_action = LastAction("trade_decline_denied", actor, NONE)]
       ELSE cache_trade([gm EXCEPT !.pending_trades = without_trade(@, trade_id),
                                   !.last_action =
                                       LastAction("trade_declined", actor, NONE)],
                        trade_id)

cancel_trade(gm, actor, trade_id) ==
    LET kept == SelectSeq(gm.pending_trades,
                          LAMBDA o : ~(o.id = trade_id /\ o.from = actor))
    IN IF Len(kept) < Len(gm.pending_trades)
       THEN cache_trade([gm EXCEPT !.pending_trades = kept,
                                   !.last_action =
                                       LastAction("trade_canceled", actor, NONE)],
                        trade_id)
       ELSE [gm EXCEPT !.last_action = LastAction("trade_cancel_denied", actor, NONE)]

-----------------------------------------------------------------------------
(* Bot driver: _ensure_bot_runner.loop, _bot_take_simple_turn               *)

\* bankruptcy inside the bot's tick, and what the tick does after it
bot_new_turn(gm) == [gm EXCEPT !.rolls_left = 1, !.rolled_this_turn = FALSE]

\* after _handle_bankruptcy: the driver stops when the game is over, else the
\* turn index is wrapped and the next turn is set up
bot_after_bankrupt(g1) ==
    IF g1.game_over.over THEN g1
    ELSE bot_new_turn([g1 EXCEPT !.current_turn =
                          IF Len(g1.players) > 0 THEN @ % Len(g1.players) ELSE @,
                                 !.turns = @ + 1])

bot_bankrupt(gm, cur) == bot_after_bankrupt(handle_bankruptcy(gm, cur))

\* the jail branch of the bot: the fee is taken from cash directly
bot_jail_step(gm, cur, d1, d2) ==
    IF ~gm.P[cur].in_jail THEN [g |-> gm, stays |-> FALSE]
    ELSE IF d1 = d2
    THEN [g |-> [gm EXCEPT !.P[cur].in_jail = FALSE, !.P[cur].jail_turns = 0],
          stays |-> FALSE]
    ELSE LET g1 == [gm EXCEPT !.P[cur].jail_turns = @ + 1]
         IN IF g1.P[cur].jail_turns < 3
            THEN [g |-> [g1 EXCEPT !.rolls_left = 0], stays |-> TRUE]
            ELSE [g |-> [g1 EXCEPT !.P[cur].cash = @ - JAIL_FEE,
                                   !.P[cur].in_jail = FALSE,
                                   !.P[cur].jail_turns = 0],
                  stays |-> FALSE]

\* the bot's tax branch: cur.cash -= amount, then _handle_negative_cash
bot_charge(gm, cur, amount) ==
    IF amount = 0 THEN gm
    ELSE IF gm.P[cur].cash - amount < 0
    THEN handle_negative_cash([gm EXCEPT !.P[cur].cash = @ - amount], cur)
    ELSE [gm EXCEPT !.P[cur].cash = @ - amount]

bot_tax(gm, cur, pos) == bot_charge(gm, cur, tax_amount(gm, cur, pos))

\* "Simple buy decision"
bot_buy(gm, cur) ==
    LET p == gm.P[cur].position
    IN IF /\ p \in Ownable /\ gm.properties[p].owner = NONE
          /\ TilePrice(p) > 0 /\ gm.P[cur].cash >= TilePrice(p)
       THEN [set_owner(gm, p, cur) EXCEPT !.P[cur].cash = @ - TilePrice(p),
                                          !.last_action = LastAction("buy", cur, NONE)]
       ELSE gm

\* the end of the tick: bankruptcy when negative, the next player otherwise
bot_end_bankrupt(g1, cur) ==
    IF g1.game_over.over THEN g1
    ELSE [bot_after_bankrupt(g1) EXCEPT !.P[cur].doubles_count = 0]

bot_end(gm, cur) ==
    IF gm.P[cur].cash < 0
    THEN bot_end_bankrupt(handle_bankruptcy(gm, cur), cur)
    ELSE [bot_new_turn(gm) EXCEPT
             !.current_turn = (gm.current_turn + 1) % Len(gm.players),
             !.last_action = LastAction("end_turn", cur, NONE),
             !.turns = @ + 1,
             !.P[cur].doubles_count = 0]

\* move, GO salary, tile effects, buy, end of tick
bot_land_rent(gm, cur, roll) ==
    bot_end(bot_buy(handle_rent(gm, cur, gm.P[cur].position, roll), cur), cur)

bot_land_card(gm, cur, roll) ==
    IF gm.P[cur].in_jail THEN [gm EXCEPT !.rolls_left = 0]
    ELSE bot_land_rent(IF TileType(gm.P[cur].position) = "tax"
                       THEN bot_tax(gm, cur, gm.P[cur].position) ELSE gm,
                       cur, roll)

bot_land(gm, cur, roll, card) ==
    LET ttype == TileType(gm.P[cur].position)
    IN IF ttype = "gotojail"
       THEN [gm EXCEPT !.P[cur].position = JAIL_POS, !.P[cur].in_jail = TRUE,
                       !.P[cur].jail_turns = 0, !.rolls_left = 0]
       ELSE IF ttype \in {"chance", "chest"}
       THEN bot_land_card(apply_card(gm, cur, card, roll), cur, roll)
       ELSE bot_land_rent(IF ttype = "tax" THEN bot_tax(gm, cur, gm.P[cur].position)
                          ELSE gm,
                          cur, roll)

bot_move(gm, cur, d1, d2, card) ==
    bot_land(move_token(gm, cur, d1 + d2), cur, d1 + d2, card)

bot_after_doubles(t, cur, d1, d2, card) ==
    IF t.jailed THEN t.g ELSE bot_move(t.g, cur, d1, d2, card)

bot_after_jail(j, cur, d1, d2, card, was_in_jail) ==
    IF j.stays THEN j.g
    ELSE bot_after_doubles(doubles_step(j.g, cur, d1, d2, was_in_jail), cur, d1, d2, card)

\* the tick once the recurring payments are charged
bot_roll(gm, cur, d1, d2, card) ==
    IF gm.P[cur].cash < 0 THEN bot_bankrupt(gm, cur)
    ELSE bot_after_jail(
             bot_jail_step([gm EXCEPT !.rolled_this_turn = TRUE,
                                      !.last_action = LastAction("rolled", cur, NONE)],
                           cur, d1, d2),
             cur, d1, d2, card, gm.P[cur].in_jail)

bot_take_simple_turn(gm, d1, d2, card) ==
    bot_roll(process_recurring_for(gm, Cur(gm)), Cur(gm), d1, d2, card)

-----------------------------------------------------------------------------
(* Session handlers: disconnect, timeout_check, auth, lobby_join, and the   *)
(* lobby consistency pass                                                  *)

\* list(dict.fromkeys(s)): first occurrences, in order
RECURSIVE dedupe(_, _)
dedupe(s, seen) ==
    IF s = <<>> THEN <<>>
    ELSE IF Head(s) \in seen THEN dedupe(Tail(s), seen)
    ELSE <<Head(s)>> \o dedupe(Tail(s), seen \cup {Head(s)})

sid_mapped(lb, sid) == \E i \in DOMAIN lb.sid_to_name : lb.sid_to_name[i].sid = sid

\* l.sid_to_name[sid] = name: an existing key keeps its place in the dict
map_sid(lb, sid, name) ==
    IF sid_mapped(lb, sid)
    THEN [lb EXCEPT !.sid_to_name =
            [i \in DOMAIN @ |-> IF @[i].sid = sid THEN [sid |-> sid, name |-> name]
                                ELSE @[i]]]
    ELSE [lb EXCEPT !.sid_to_name = Append(@, [sid |-> sid, name |-> name])]

\* the deadline recorded at a disconnect during a game
new_deadline(t) == t + DISCONNECT_GRACE

\* disconnect(sid): the lobby part.  scheduled tells that a timeout_check task
\* was created for name with the recorded deadline.
disconnect_lobby(lb, gm, sid, t) ==
    IF lb.deleted \/ ~sid_mapped(lb, sid) THEN [l |-> lb, scheduled |-> FALSE, name |-> NONE]
    ELSE LET name == sid_name(lb, sid)
             l1 == [lb EXCEPT !.sid_to_name = SelectSeq(@, LAMBDA e : e.sid /= sid)]
             still_connected == \E i \in DOMAIN l1.sid_to_name : l1.sid_to_name[i].name = name
             game_finished == lb.has_game /\ gm.game_over.over
             l2 == IF (~lb.has_game \/ game_finished) /\ name \in Range(l1.players)
                      /\ ~still_connected
                   THEN [l1 EXCEPT !.players = remove_player(@, name)] ELSE l1
             l3 == [l2 EXCEPT !.ready = @ \ {sid},
                              !.host_sid = IF @ = sid /\ l2.sid_to_name /= <<>>
                                           THEN l2.sid_to_name[1].sid ELSE @]
         IN IF lb.has_game /\ ~still_connected
            THEN [l |-> [l3 EXCEPT !.disconnect_deadlines[name] = new_deadline(t)],
                  scheduled |-> TRUE, name |-> name]
            ELSE [l |-> l3, scheduled |-> FALSE, name |-> name]

\* l2.disconnect_deadlines.get(pname, 0) <= loop.time()
deadline_get(lb, pname) ==
    IF lb.disconnect_deadlines[pname] = NoDeadline THEN 0
    ELSE lb.disconnect_deadlines[pname]

timeout_fires(lb, pname, t) == deadline_get(lb, pname) <= t

\* the removal timeout_check performs on the game
timeout_remove(gm, pname) ==
    LET g1 == release_properties(gm, pname)
        np == remove_player(g1.players, pname)
    IN [g1 EXCEPT !.players = np,
                  !.current_turn = IF Len(np) > 0 THEN @ % Len(np) ELSE @]

\* auth(sid, data): data.get("display") or f"User-{sid[:4]}"
auth_name(sid, display) == IF display /= "" THEN display ELSE DefaultName(sid)

clear_deadline(lb, name) ==
    IF name \in DOMAIN lb.disconnect_deadlines
    THEN [lb EXCEPT !.disconnect_deadlines[name] = NoDeadline] ELSE lb

\* lobby_join: the name the connection joins under (no client_id is presented)
join_name(un, sid) == IF un[sid] /= "" THEN un[sid] ELSE DefaultName(sid)

name_taken(lb, name) == name \in Range(lb.players)

lobby_join(lb, sid, name) ==
    map_sid([lb EXCEPT !.players = Append(@, name)], sid, name)

\* the names of the mapped connections for which sio.get_session succeeds
connected_names(lb, live) ==
    LET alive == SelectSeq(lb.sid_to_name, LAMBDA e : e.sid \in live)
    IN [i \in DOMAIN alive |-> alive[i].name]

\* _lobby_consistency_pass, for this lobby
lobby_consistency_pass(lb, gm, live) ==
    LET connected_players == connected_names(lb, live)
        new_players == dedupe(connected_players \o lb.bots, {})
        l1 == [lb EXCEPT !.players = new_players,
                         !.sid_to_name = SelectSeq(@, LAMBDA e : e.name \in Range(new_players))]
    IN IF Len(l1.players) = 0 /\ (~lb.has_game \/ gm.game_over.over)
       THEN [l1 EXCEPT !.deleted = TRUE] ELSE l1

\* vote_kick and the kick timer
KICK_FIRST == 300
KICK_CLAMP == 120

\* list.remove(x): the first occurrence goes
RECURSIVE remove_first(_, _)
remove_first(s, x) ==
    IF s = <<>> THEN <<>>
    ELSE IF Head(s) = x THEN Tail(s)
    ELSE <<Head(s)>> \o remove_first(Tail(s), x)

\* del l.sid_to_name[target_sid] for the first connection mapped to target
unmap_name(lb, target) ==
    IF \E i \in DOMAIN lb.sid_to_name : lb.sid_to_name[i].name = target
    THEN LET i == CHOOSE i \in DOMAIN lb.sid_to_name :
                     /\ lb.sid_to_name[i].name = target
                     /\ \A j \in 1..(i - 1) : lb.sid_to_name[j].name /= target
         IN [lb EXCEPT !.sid_to_name = remove_at(@, i)]
    ELSE lb

pop_votes(lb, target) ==
    IF target \in DOMAIN lb.kick_votes THEN [lb EXCEPT !.kick_votes[target] = {}] ELSE lb

\* "Host can instantly kick any player in pre-game lobby"
host_kick(lb, target) ==
    pop_votes(unmap_name([lb EXCEPT !.players = remove_first(@, target)], target), target)

\* (l.kick_deadline or 0)
kick_deadline_get(lb) == IF lb.kick_deadline = NoDeadline THEN 0 ELSE lb.kick_deadline

kick_timer_restart(lb, target, votes, t) ==
    [lb EXCEPT !.kick_target = target, !.kick_deadline = t + KICK_FIRST]

\* "Start or adjust timer: 1 vote -> 5 min, 2 votes -> at most 2 min remaining"
kick_timer_set(lb, target, votes, t) ==
    IF lb.kick_target /= target
    THEN [lb EXCEPT !.kick_target = target, !.kick_deadline = t + KICK_FIRST]
    ELSE IF Cardinality(votes) >= 2 /\ kick_deadline_get(lb) - t > KICK_CLAMP
    THEN [lb EXCEPT !.kick_deadline = t + KICK_CLAMP]
    ELSE lb

\* len([p for p in l.players if p not in l.bots])
non_bot_total(lb) == Len(SelectSeq(lb.players, LAMBDA p : p \notin Range(lb.bots)))

kick_relaxed(votes, total) == Cardinality(votes) >= total \div 2

\* len(votes) > total // 2
kick_majority(votes, total) == Cardinality(votes) > total \div 2

\* the target leaves the game: properties to the bank, turn index wrapped
kick_from_game(gm, target) ==
    IF find_player(gm, target)
    THEN LET g1 == release_properties(gm, target)
             np == remove_player(g1.players, target)
         IN [g1 EXCEPT !.players = np, !.current_turn = @ % Max(1, Len(np))]
    ELSE gm

kick_clear(lb, target) ==
    [pop_votes([lb EXCEPT !.players = remove_first(@, target)], target)
        EXCEPT !.kick_target = NONE, !.kick_deadline = NoDeadline]

\* the vote was counted: l1 is the lobby with the vote and the timer set
vote_counted(l1, gm, target) ==
    IF kick_majority(l1.kick_votes[target], non_bot_total(l1))
    THEN [l |-> kick_clear(l1, target), g |-> kick_from_game(gm, target),
          out |-> "kicked"]
    ELSE [l |-> l1, g |-> gm, out |-> "voted"]

\* vote_kick(sid, {id, target}) at time t
vote_kick(lb, gm, sid, target, t) ==
    IF lb.deleted \/ sid_name(lb, sid) = NONE \/ target \notin Range(lb.players)
    THEN [l |-> lb, g |-> gm, out |-> "ignored"]
    ELSE IF sid = lb.host_sid /\ ~lb.has_game
    THEN [l |-> host_kick(lb, target), g |-> gm, out |-> "host_kick"]
    ELSE IF ~lb.has_game \/ ~HasCur(gm) \/ target /= Cur(gm)
    THEN [l |-> lb, g |-> gm, out |-> "ignored"]
    ELSE vote_counted(
            kick_timer_set([lb EXCEPT !.kick_votes[target] = @ \cup {sid_name(lb, sid)}],
                           target, lb.kick_votes[target] \cup {sid_name(lb, sid)}, t),
            gm, target)

\* the kick timer's loop body once its deadline has come:
\* "Kick only if target is still current and hasn't rolled"
kick_timer_fire(lb, gm) ==
    IF lb.has_game /\ HasCur(gm) /\ Cur(gm) = lb.kick_target /\ ~gm.rolled_this_turn
    THEN [l |-> kick_clear(lb, lb.kick_target), g |-> kick_from_game(gm, lb.kick_target),
          kicked |-> TRUE]
    ELSE [l |-> lb, g |-> gm, kicked |-> FALSE]

-----------------------------------------------------------------------------
(* The state after construction, and the game states explored               *)

STARTING_CASH == 1500

AllNames == Names \cup {DefaultName(s) : s \in Connections}

NoAction == LastAction(NONE, NONE, NONE)

\* Game(players=[Player(name=p, cash=l.starting_cash) for p in l.players])
\* _stocks_ensure: the record of an owner nobody touched yet
NoStock ==
    [allow_investing |-> FALSE, enforce_min_buy |-> FALSE, min_buy |-> 0,
     enforce_min_pool_total |-> FALSE, enforce_min_pool_owner |-> FALSE,
     min_pool_total |-> 0, min_pool_owner |-> 0,
     holdings |-> [k \in Names |-> 0]]

Game(players, cash) ==
    [players |-> players,
     P |-> [n \in Names |-> Player(cash, 0)],
     current_turn |-> 0,
     properties |-> [pos \in Ownable |-> PropertyState],
     porder |-> <<>>,
     last_action |-> NoAction,
     rolls_left |-> 1,
     pending_trades |-> <<>>,
     rolled_this_turn |-> FALSE,
     recurring |-> <<>>,
     round |-> 0,
     turns |-> 0,
     game_over |-> NoGameOver,
     property_rentals |-> <<>>,
     recent_trades |-> <<>>,
     bonds |-> [n \in Names |-> [allow_bonds |-> FALSE, rate_percent |-> 0,
                                 period_turns |-> 1]],
     bond_investments |-> <<>>,
     turn_counts |-> [n \in Names |-> 0],
     debts |-> [n \in Names |-> <<>>],
     stocks |-> [n \in Names |-> NoStock]]

\* the lobby of a started game: every human player has one live connection
SidOf(name) == CASE name = "A" -> "s1" [] name = "B" -> "s2" [] OTHER -> "s3"

Lobby(players, bots) ==
    LET humans == SelectSeq(players, LAMBDA n : n \in Humans)
    IN [id |-> 1,
        deleted |-> FALSE,
        has_game |-> TRUE,
        game_no |-> 1,
        players |-> players,
        sid_to_name |-> [i \in DOMAIN humans |-> [sid |-> SidOf(humans[i]),
                                                  name |-> humans[i]]],
        ready |-> {},
        host_sid |-> "s1",
        bots |-> bots,
        disconnect_deadlines |-> [n \in AllNames |-> NoDeadline],
        kick_votes |-> [n \in Names |-> {}],
        kick_target |-> NONE,
        kick_deadline |-> NoDeadline]

Usernames(players) ==
    [s \in Connections |-> IF \E n \in Range(players) : n \in Humans /\ SidOf(n) = s
                    THEN CHOOSE n \in Range(players) : n \in Humans /\ SidOf(n) = s
                    ELSE ""]

\* a property bought earlier in the game
Owned(owner, houses, hotel, mortgaged) ==
    [owner |-> owner, houses |-> houses, hotel |-> hotel, mortgaged |-> mortgaged]

\* A fresh game of A against the bot, as lobby_start leaves it
FreshGame == Game(<<"A", "Bot">>, STARTING_CASH)

\* A game in progress between A, B and C.  A has built up the dark-blue set
\* (four houses on 37, a hotel on 39) and sold a bond to C; B is short of cash,
\* owns the brown set and Reading Railroad, stands on 32 and owes A a per-turn
\* payment from an earlier trade; C sits in jail with a jail card.
MidGame(turn, jail_turns) ==
    LET g0 == Game(<<"A", "B", "C">>, STARTING_CASH)
    IN [g0 EXCEPT
          !.current_turn = turn,
          !.round = 4,
          !.turns = 12 + turn,
          !.turn_counts = [n \in Names |-> IF n \in {"A", "B", "C"} THEN 4 ELSE 0],
          !.P["A"] = [Player(900, 24) EXCEPT !.auto_buy_houses = FALSE],
          !.P["B"] = Player(500, 32),
          !.P["C"] = [Player(1200, JAIL_POS) EXCEPT !.in_jail = TRUE,
                                                    !.jail_turns = jail_turns,
                                                    !.jail_cards = 1],
          !.properties = [pos \in Ownable |->
               CASE pos = 37 -> Owned("A", 4, FALSE, FALSE)
                 [] pos = 39 -> Owned("A", 0, TRUE, FALSE)
                 [] pos = 1 -> Owned("B", 0, FALSE, FALSE)
                 [] pos = 3 -> Owned("B", 0, FALSE, TRUE)
                 [] pos = 5 -> Owned("B", 0, FALSE, FALSE)
                 [] OTHER -> PropertyState],
          !.porder = <<1, 37, 5, 39, 3>>,
          !.recurring = <<[from |-> "B", to |-> "A", amount |-> 50, turns_left |-> 3]>>,
          !.bonds["A"] = [allow_bonds |-> TRUE, rate_percent |-> 10, period_turns |-> 1],
          !.bond_investments = <<[owner |-> "A", investor |-> "C", principal |-> 100]>>]

\* no trade named by the request
NoTradeId == [n |-> -1, r |-> 0]

Ev(op, sid, actor, cur, ok) ==
    [op |-> op, sid |-> sid, actor |-> actor, cur |-> cur, ok |-> ok,
     roll |-> 0, doubles |-> FALSE, was_in_jail |-> FALSE, card |-> NONE,
     moved |-> FALSE, late |-> FALSE, rolls_left |-> 0, trade |-> NoTradeId, target |-> NONE, listed |-> NONE, repeat |-> FALSE]

NoEv == Ev(NONE, NONE, NONE, NONE, FALSE)

FreshTurn ==
    [charges |-> 0, streak |-> 0, settled |-> FALSE, requests |-> 0, denied |-> FALSE,
     due |-> FALSE, count |-> 0]

\* a recurring payment of name is on the books
recurring_due(gm, name) == \E i \in DOMAIN gm.recurring : gm.recurring[i].from = name

\* the history of a turn that begins in gm: due tells whether its player has a
\* recurring payment to make, count is the player's turn_counts entry
turn_start(gm) ==
    [FreshTurn EXCEPT !.due = IF HasCur(gm) THEN recurring_due(gm, Cur(gm)) ELSE FALSE,
                      !.count = IF HasCur(gm) THEN gm.turn_counts[Cur(gm)] ELSE 0]

Budget == [steps |-> MaxSteps, clock |-> MaxClock, session |-> MaxSession,
           ledger |-> MaxLedger]

\* the trade id the first offer of a game gets
FirstTradeId == [n |-> 0, r |-> 1000]

\* B, to move, has offered A more cash than B holds
Offered ==
    offer_trade(MidGame(1, 0), "B", "A", Side(600, <<>>, FALSE), NoSide, NoTerms,
                FirstTradeId.r).g

\* ... and A has accepted
Overdrawn == accept_trade(Offered, "A", FirstTradeId).g

\* A has lent the jailed C 100 against 60 a turn for two turns; C is to move
Lent ==
    accept_trade(
        offer_trade(MidGame(2, 0), "C", "A", NoSide, Side(100, <<>>, FALSE),
                    [payments |-> <<[from |-> "C", to |-> "A", amount |-> 60, turns |-> 2]>>,
                     rentals |-> <<>>],
                    FirstTradeId.r).g,
        "A", FirstTradeId).g

\* A, to move, has set the coupon period of the bond sold to C to 2 turns
BondTurn == [MidGame(0, 0) EXCEPT !.bonds["A"].period_turns = 2]

\* A and B have declared bankruptcy; C is the only player left
LastStanding == bankrupt(bankrupt(MidGame(1, 0), "A"), "B")

Scenarios ==
    {FreshGame, MidGame(1, 0), Offered, Overdrawn, LastStanding, Lent, BondTurn}
        \cup {MidGame(2, jt) : jt \in 0..2}

InitIn(gm, lb, b) ==
    /\ g = gm
    /\ l = lb
    /\ USERNAMES = Usernames(IF gm = FreshGame THEN gm.players ELSE <<"A", "B", "C">>)
    /\ now = 0
    /\ tasks = {}
    /\ conn = [s \in Connections |-> IF s \in Sids THEN "live" ELSE "new"]
    /\ inflight = <<>>
    /\ ev = NoEv
    /\ th = turn_start(gm)
    /\ budget = b

InitWith(gm, b) ==
    InitIn(gm, Lobby(gm.players, SelectSeq(gm.players, LAMBDA n : n \in Bots)), b)

InitOf(gm) == InitWith(gm, Budget)

Init == \E gm \in Scenarios : InitOf(gm)

-----------------------------------------------------------------------------
(* Actions: one per game_action type, and the bot driver's tick             *)

\* the request changed nothing in the game but last_action
unchanged_but_last(gm, gm2) == [gm2 EXCEPT !.last_action = gm.last_action] = gm

\* the turn went from one player to another, or a new turn began
TurnPassed(gm, gm2) ==
    \/ gm2.turns /= gm.turns
    \/ ~HasCur(gm) \/ ~HasCur(gm2)
    \/ Cur(gm2) /= Cur(gm)

\* what a handler run is counted for: a step of play, another request, or
\* nothing (a roll or end_turn request the handler denies)
Cost(kind) == IF kind = "step" THEN 1 ELSE IF kind = "ops" THEN 2 ELSE 0

Spend(kind) == [budget EXCEPT !.steps = @ - Cost(kind)]

Affordable(kind) == budget.steps >= Cost(kind)

\* the frame of every game_action handler: the new game and lobby, the history
Handled(gm2, lb2, e, th2, kind) ==
    /\ Affordable(kind)
    /\ g' = gm2
    /\ l' = lb2
    /\ ev' = e
    /\ th' = IF TurnPassed(g, gm2) THEN turn_start(gm2) ELSE th2
    /\ budget' = Spend(kind)
    /\ UNCHANGED <<USERNAMES, now, tasks, conn, inflight>>

\* game_action is served for a lobby with a game whose current_turn is an index
Serving == ~l.deleted /\ l.has_game /\ HasCur(g)

Rejected(sid, t) ==
    Handled(not_your_turn(g, actor_of(l, USERNAMES, sid), t), l,
            Ev(t, sid, actor_of(l, USERNAMES, sid), Cur(g), FALSE), th, "ops")

\* a handler ran for the request t of sid and left the game g2; the request
\* went through when it left last_action.type = done
Answer(sid, t, g2, done) ==
    Handled(g2, l, Ev(t, sid, actor_of(l, USERNAMES, sid), Cur(g), g2.last_action.type = done),
            th, "ops")

\* ... for the handlers that return {"ok": ...}
AnswerOk(sid, t, r) ==
    Handled(r.g, l, Ev(t, sid, actor_of(l, USERNAMES, sid), Cur(g), r.ok), th, "ops")

\* ... for the handlers of a request that names the trade id; done tells
\* whether the request went through
AnswerTrade(sid, t, id, g2, done) ==
    Handled(g2, l, [Ev(t, sid, actor_of(l, USERNAMES, sid), Cur(g), done)
                       EXCEPT !.trade = id], th, "ops")

\* the roll moves the token: neither the jail branch nor the triples rule returns
roll_moves(gm, cur, d1, d2) ==
    /\ ~jail_step(gm, cur, d1, d2).stays
    /\ ~doubles_step(jail_step(gm, cur, d1, d2).g, cur, d1, d2, gm.P[cur].in_jail).jailed

\* the turn's history after the start-of-turn charges of a roll request
Charged(t, b) ==
    [t EXCEPT !.charges = IF b.charged THEN @ + 1 ELSE @,
              !.requests = Min(@ + 1, 2),
              !.denied = @ \/ b.out = "roll_denied"]

\* the turn's history after dice were thrown for cur
Thrown(t, gm2, cur, d1, d2, was_in_jail) ==
    [t EXCEPT !.streak = IF d1 = d2 /\ ~was_in_jail THEN @ + 1 ELSE 0,
              !.settled = @ \/ d1 /= d2]

RollEv(sid, actor, cur, d1, d2, card, was_in_jail, moved) ==
    [Ev("roll_dice", sid, actor, cur, TRUE) EXCEPT
        !.roll = d1 + d2, !.doubles = (d1 = d2), !.was_in_jail = was_in_jail,
        !.card = card.kind, !.moved = moved, !.late = th.settled /\ moved]

\* the dice came up d1, d2 (and the card, on a card tile): r is the handler's result
RollThrown(sid, b, d1, d2, card, r) ==
    Handled(r.g, IF r.cancel THEN cancel_kick(l, Cur(g)) ELSE l,
            RollEv(sid, actor_of(l, USERNAMES, sid), Cur(g), d1, d2, card,
                   b.g.P[Cur(g)].in_jail, roll_moves(b.g, Cur(g), d1, d2)),
            Thrown(Charged(th, b), r.g, Cur(g), d1, d2, b.g.P[Cur(g)].in_jail),
            "step")

\* the request passed the turn gate; b is the handler's state at the throw
RollServed(sid, b) ==
    IF b.out /= "rolled"
    THEN Handled(b.g, l, Ev("roll_dice", sid, actor_of(l, USERNAMES, sid), Cur(g), FALSE),
                 Charged(th, b), "free")
    ELSE \E d \in DicePairs : \E card \in card_choices(b.g, Cur(g), d[1], d[2]) :
            RollThrown(sid, b, d[1], d[2], card, roll_dice(g, d[1], d[2], card))

RollDice(sid) ==
    /\ Serving
    /\ IF gate_rejects(g, actor_of(l, USERNAMES, sid), "roll_dice")
       THEN Rejected(sid, "roll_dice")
       ELSE RollServed(sid, roll_begin(g))

BuyProperty(sid) ==
    /\ Serving
    /\ IF gate_rejects(g, actor_of(l, USERNAMES, sid), "buy_property")
       THEN Rejected(sid, "buy_property")
       ELSE Answer(sid, "buy_property", buy_property(g), "buy")

EndTurnServed(sid, r) ==
    Handled(r.g, IF r.ok THEN cancel_kick(l, Cur(g)) ELSE l,
            [Ev("end_turn", sid, actor_of(l, USERNAMES, sid), Cur(g), r.ok)
                EXCEPT !.rolls_left = g.rolls_left], th,
            IF r.ok THEN "step" ELSE "free")

EndTurn(sid) ==
    /\ Serving
    /\ IF gate_rejects(g, actor_of(l, USERNAMES, sid), "end_turn")
       THEN Rejected(sid, "end_turn")
       ELSE EndTurnServed(sid, end_turn(g))

UseJailCard(sid) ==
    /\ Serving
    /\ IF gate_rejects(g, actor_of(l, USERNAMES, sid), "use_jail_card")
       THEN Rejected(sid, "use_jail_card")
       ELSE Answer(sid, "use_jail_card", use_jail_card(g), "used_jail_card")

\* the positions a management request names (0: "the tile I stand on")
ManagePositions == {0, 1, 3, 37, 39}

Manage(sid, t, pos) ==
    /\ Serving
    /\ IF gate_rejects(g, actor_of(l, USERNAMES, sid), t)
       THEN Rejected(sid, t)
       ELSE Answer(sid, t, manage(g, t, pos), t)

Bankrupt(sid) ==
    /\ Serving
    /\ Answer(sid, "bankrupt", bankrupt(g, actor_of(l, USERNAMES, sid)), "bankrupt")

ToggleAutoMortgage(sid) ==
    /\ Serving
    /\ find_player(g, actor_of(l, USERNAMES, sid))
    /\ Answer(sid, "toggle_auto_mortgage",
              toggle_auto_mortgage(g, actor_of(l, USERNAMES, sid)), "auto_mortgage_toggled")

ToggleAutoBuyHouses(sid) ==
    /\ Serving
    /\ find_player(g, actor_of(l, USERNAMES, sid))
    /\ Answer(sid, "toggle_auto_buy_houses",
              toggle_auto_buy_houses(g, actor_of(l, USERNAMES, sid)),
              "auto_buy_houses_toggled")

\* the offers clients send: cash beyond what a short player holds; a property
\* against cash with a per-turn payment from the offerer
OfferTemplates(actor, target) ==
    { [give |-> Side(600, <<>>, FALSE), receive |-> NoSide, terms |-> NoTerms],
      [give |-> Side(0, <<1>>, FALSE), receive |-> Side(100, <<>>, FALSE),
       terms |-> [payments |-> <<[from |-> actor, to |-> target, amount |-> 50,
                                  turns |-> 2]>>,
                  rentals |-> <<>>]] }

TradeRand == {1000, 1001}

\* the client of sid offers target the trade o
OfferTradeOf(sid, target, o) ==
    /\ Serving
    /\ target /= actor_of(l, USERNAMES, sid)
    /\ \E r \in TradeRand :
          AnswerOk(sid, "offer_trade",
                   offer_trade(g, actor_of(l, USERNAMES, sid), target,
                               o.give, o.receive, o.terms, r))

OfferTrade(sid, target) ==
    \E o \in OfferTemplates(actor_of(l, USERNAMES, sid), target) :
        OfferTradeOf(sid, target, o)

PendingIds == {g.pending_trades[i].id : i \in DOMAIN g.pending_trades}

AcceptTrade(sid) ==
    /\ Serving
    /\ \E id \in PendingIds :
          AnswerTrade(sid, "accept_trade", id,
                      accept_trade(g, actor_of(l, USERNAMES, sid), id).g,
                      accept_trade(g, actor_of(l, USERNAMES, sid), id).ok)

DeclineTrade(sid) ==
    /\ Serving
    /\ \E id \in PendingIds :
          AnswerTrade(sid, "decline_trade", id,
                      decline_trade(g, actor_of(l, USERNAMES, sid), id),
                      decline_trade(g, actor_of(l, USERNAMES, sid), id).last_action.type
                          = "trade_declined")

CancelTrade(sid) ==
    /\ Serving
    /\ \E id \in PendingIds :
          AnswerTrade(sid, "cancel_trade", id,
                      cancel_trade(g, actor_of(l, USERNAMES, sid), id),
                      cancel_trade(g, actor_of(l, USERNAMES, sid), id).last_action.type
                          = "trade_canceled")

\* the tick left the game g2
BotTicked(g2) ==
    /\ g' = g2
    /\ ev' = Ev("bot_tick", NONE, Cur(g), Cur(g), TRUE)
    /\ th' = IF TurnPassed(g, g2) THEN turn_start(g2) ELSE th
    /\ budget' = Spend("step")
    /\ UNCHANGED <<l, USERNAMES, now, tasks, conn, inflight>>

\* one iteration of the bot runner's loop in which the current player is a bot
BotTick ==
    /\ Serving
    /\ Cur(g) \in Range(l.bots)
    /\ Affordable("step")
    /\ \E d \in DicePairs :
         \E card \in card_choices(process_recurring_for(g, Cur(g)), Cur(g), d[1], d[2]) :
            BotTicked(bot_take_simple_turn(g, d[1], d[2], card))

Next ==
    \/ \E sid \in Sids : RollDice(sid)
    \/ \E sid \in Sids : BuyProperty(sid)
    \/ \E sid \in Sids : EndTurn(sid)
    \/ \E sid \in Sids : UseJailCard(sid)
    \/ \E sid \in Sids : \E t \in ManageTypes : \E pos \in ManagePositions : Manage(sid, t, pos)
    \/ \E sid \in Sids : Bankrupt(sid)
    \/ \E sid \in Sids : ToggleAutoMortgage(sid)
    \/ \E sid \in Sids : ToggleAutoBuyHouses(sid)
    \/ \E sid \in Sids : \E target \in Humans : OfferTrade(sid, target)
    \/ \E sid \in Sids : AcceptTrade(sid)
    \/ \E sid \in Sids : DeclineTrade(sid)
    \/ \E sid \in Sids : CancelTrade(sid)
    \/ BotTick

Spec == Init /\ [][Next]_vars

-----------------------------------------------------------------------------
(* The session machine: connections come and go around a running game       *)

\* the clock advances in steps of half the grace period
TickLen == DISCONNECT_GRACE \div 2

\* the display names clients present at auth ("" : none)
Displays == {"", "A"}

SessionEv(op, sid, name, ok) == Ev(op, sid, name, NONE, ok)

SessionSpend == [budget EXCEPT !.session = @ - 1]

\* the frame of a session handler: it leaves the lobby lb2 and the names un2
Session(lb2, un2, e) ==
    /\ budget.session > 0
    /\ l' = lb2
    /\ USERNAMES' = un2
    /\ ev' = e
    /\ budget' = SessionSpend
    /\ UNCHANGED <<g, now, th, inflight>>

Connect(sid) ==
    /\ conn[sid] = "new"
    /\ conn' = [conn EXCEPT ![sid] = "live"]
    /\ ev' = SessionEv("connect", sid, NONE, TRUE)
    /\ UNCHANGED <<g, l, USERNAMES, now, tasks, inflight, th, budget>>

Auth(sid, display) ==
    /\ conn[sid] = "live"
    /\ Session(IF l.deleted THEN l ELSE clear_deadline(l, auth_name(sid, display)),
               [USERNAMES EXCEPT ![sid] = auth_name(sid, display)],
               SessionEv("auth", sid, auth_name(sid, display), TRUE))
    /\ UNCHANGED <<tasks, conn>>

LobbyJoin(sid) ==
    /\ conn[sid] = "live"
    /\ ~l.deleted
    /\ IF name_taken(l, join_name(USERNAMES, sid))
       THEN Session(l, USERNAMES, SessionEv("lobby_join", sid, join_name(USERNAMES, sid), FALSE))
       ELSE Session(lobby_join(l, sid, join_name(USERNAMES, sid)),
                    [USERNAMES EXCEPT ![sid] = join_name(USERNAMES, sid)],
                    SessionEv("lobby_join", sid, join_name(USERNAMES, sid), TRUE))
    /\ UNCHANGED <<tasks, conn>>

\* the disconnect handler left r; a timeout_check task is created when scheduled
Disconnected(sid, r) ==
    /\ Session(r.l, [USERNAMES EXCEPT ![sid] = ""],
               SessionEv("disconnect", sid, r.name, r.scheduled))
    /\ tasks' = IF r.scheduled
                THEN tasks \cup {[pname |-> r.name, due |-> r.l.disconnect_deadlines[r.name]]}
                ELSE tasks
    /\ conn' = [conn EXCEPT ![sid] = "closed"]

Disconnect(sid) ==
    /\ conn[sid] = "live"
    /\ Disconnected(sid, disconnect_lobby(l, g, sid, now))

\* a timeout_check task whose sleep is over runs
TimeoutCheck(task) ==
    /\ task \in tasks
    /\ now >= task.due
    /\ tasks' = tasks \ {task}
    /\ IF ~l.deleted /\ timeout_fires(l, task.pname, now)
       THEN /\ l' = clear_deadline(l, task.pname)
            /\ g' = IF l.has_game THEN timeout_remove(g, task.pname) ELSE g
            /\ ev' = SessionEv("timeout_check", NONE, task.pname, TRUE)
       ELSE /\ UNCHANGED <<l, g>>
            /\ ev' = SessionEv("timeout_check", NONE, task.pname, FALSE)
    /\ UNCHANGED <<USERNAMES, now, conn, inflight, th, budget>>

Tick ==
    /\ budget.clock > 0
    /\ now' = now + TickLen
    /\ budget' = [budget EXCEPT !.clock = @ - 1]
    /\ ev' = SessionEv("tick", NONE, NONE, TRUE)
    /\ UNCHANGED <<g, l, USERNAMES, tasks, conn, inflight, th>>

\* the connections the server holds a session for
LiveSids == {s \in Connections : conn[s] = "live"}

\* the lobby validator's loop, or a lobby_list request
ConsistencyPass ==
    /\ ~l.deleted
    /\ Session(lobby_consistency_pass(l, g, LiveSids), USERNAMES, SessionEv("consistency_pass", NONE, NONE, TRUE))
    /\ UNCHANGED <<tasks, conn>>

SessionScenarios == {FreshGame, MidGame(1, 0)}

InitSession == \E gm \in SessionScenarios : InitOf(gm)

NextSession ==
    \/ \E sid \in Connections : Connect(sid)
    \/ \E sid \in Connections : \E display \in Displays : Auth(sid, display)
    \/ \E sid \in Connections : LobbyJoin(sid)
    \/ \E sid \in Connections : Disconnect(sid)
    \/ \E task \in tasks : TimeoutCheck(task)
    \/ Tick
    \/ ConsistencyPass

SpecSession == InitSession /\ [][NextSession]_vars

-----------------------------------------------------------------------------
(* roll_dice with its awaited sound emit: other handlers run between the    *)
(* emit and the handler's resumption                                        *)

\* the handler threw d1, d2 and is suspended at the emit
RollStarted(sid, b, d1, d2) ==
    /\ Affordable("step")
    /\ g' = b.g
    /\ inflight' = Append(inflight, [sid |-> sid, cur |-> Cur(g), d1 |-> d1, d2 |-> d2,
                                     turns |-> g.turns])
    /\ ev' = Ev("roll_dice", sid, actor_of(l, USERNAMES, sid), Cur(g), TRUE)
    /\ th' = Charged(th, b)
    /\ budget' = Spend("step")
    /\ UNCHANGED <<l, USERNAMES, now, tasks, conn>>

RollBegun(sid, b) ==
    IF b.out /= "rolled"
    THEN Handled(b.g, l, Ev("roll_dice", sid, actor_of(l, USERNAMES, sid), Cur(g), FALSE),
                 Charged(th, b), "free")
    ELSE \E d \in DicePairs : RollStarted(sid, b, d[1], d[2])

RollStart(sid) ==
    /\ Serving
    /\ IF gate_rejects(g, actor_of(l, USERNAMES, sid), "roll_dice")
       THEN Rejected(sid, "roll_dice")
       ELSE RollBegun(sid, roll_begin(g))

\* the suspended handler h goes on from "was_in_jail = cur.in_jail" and leaves r
RollResumed(h, card, r, same_turn) ==
    /\ g' = r.g
    /\ l' = IF r.cancel THEN cancel_kick(l, h.cur) ELSE l
    /\ ev' = [RollEv(h.sid, h.cur, h.cur, h.d1, h.d2, card, g.P[h.cur].in_jail,
                     roll_moves(g, h.cur, h.d1, h.d2))
                EXCEPT !.late = @ /\ same_turn]
    /\ th' = IF same_turn THEN Thrown(th, r.g, h.cur, h.d1, h.d2, g.P[h.cur].in_jail) ELSE th
    /\ UNCHANGED <<USERNAMES, now, tasks, conn, budget>>

RollResume(i) ==
    /\ inflight[i].cur \in Range(g.players)
    /\ inflight' = remove_at(inflight, i)
    /\ \E card \in card_choices(g, inflight[i].cur, inflight[i].d1, inflight[i].d2) :
          RollResumed(inflight[i], card,
                      roll_finish(g, inflight[i].cur, inflight[i].d1, inflight[i].d2, card),
                      inflight[i].turns = g.turns /\ HasCur(g) /\ Cur(g) = inflight[i].cur)

AsyncScenarios == {FreshGame, MidGame(1, 0), MidGame(2, 0)}

InitAsync == \E gm \in AsyncScenarios : InitOf(gm)

NextAsync ==
    \/ \E sid \in Sids : RollStart(sid)
    \/ \E i \in DOMAIN inflight : RollResume(i)
    \/ \E sid \in Sids : EndTurn(sid)

SpecAsync == InitAsync /\ [][NextAsync]_vars

-----------------------------------------------------------------------------
(* Properties                                                              *)

\* some other player's cash in gm2 minus that in gm, summed over the players
\* of gm other than name
RECURSIVE gain_of_others(_, _, _, _)
gain_of_others(gm, gm2, name, s) ==
    IF s = <<>> THEN 0
    ELSE (IF Head(s) = name THEN 0 ELSE gm2.P[Head(s)].cash - gm.P[Head(s)].cash)
         + gain_of_others(gm, gm2, name, Tail(s))

name_connected(lb, name) == \E i \in DOMAIN lb.sid_to_name : lb.sid_to_name[i].name = name

\* C1: a timeout_check task that runs for a player whose deadline entry was
\* cleared by a re-authentication removes neither the player from game.players
\* nor any of the player's properties.
C1_TimeoutAfterReconnectIsNoOp ==
    [][(/\ ev'.op = "timeout_check"
        /\ tasks' /= tasks
        /\ l.disconnect_deadlines[ev'.actor] = NoDeadline
        /\ \E s \in Connections : conn[s] = "live" /\ USERNAMES[s] = ev'.actor)
       => (g'.players = g.players /\ g'.properties = g.properties)]_vars

\* C2: when the only connection of name N has dropped and a deadline for N is
\* pending in a lobby with a running game, a lobby_join of a connection
\* carrying name N succeeds, maps that connection to N and leaves no deadline
\* for N.
C2_RejoinClearsDeadline ==
    [][(/\ ev'.op = "lobby_join"
        /\ budget' /= budget
        /\ l.has_game
        /\ ~name_connected(l, ev'.actor)
        /\ l.disconnect_deadlines[ev'.actor] /= NoDeadline)
       => (/\ ev'.ok
           /\ sid_name(l', ev'.sid) = ev'.actor
           /\ l'.disconnect_deadlines[ev'.actor] = NoDeadline)]_vars

\* C3: of the roll_dice handlers in flight in one turn, none moves the token
\* after a roll of that turn that was not doubles has completed (as no
\* one-after-the-other execution would).
C3_NoMoveAfterSettledRoll == ~ev.late

\* C4: within one turn the start-of-turn obligations (recurring payments, bond
\* coupons) of the current player are processed by at most one roll_dice
\* request, a denied one included.
C4_ChargedAtMostOncePerTurn == th.charges <= 1

\* C4, its case: a roll was denied after the obligations were processed, and
\* another roll request of the same turn was served
C4_Witness == th.denied /\ th.requests = 2 /\ th.charges = 1

\* C5: a turn-bound request whose actor is not the current-turn player is
\* rejected with not_your_turn and changes nothing in the game but last_action.
C5_TurnBoundGate ==
    [][(ev'.op \in turn_bound /\ ev'.actor /= ev'.cur)
       => (g'.last_action.type = "not_your_turn" /\ unchanged_but_last(g, g'))]_vars

\* the condition the claim C6 states for an end_turn request received in gm
end_turn_may_pass(gm, actor) ==
    /\ actor = Cur(gm)
    /\ gm.rolled_this_turn \/ gm.P[Cur(gm)].in_jail
    /\ gm.rolls_left = 0
    /\ gm.P[Cur(gm)].cash >= 0

\* C6 as stated: end_turn is rejected, and current_turn unchanged, unless the
\* actor is current, (rolled_this_turn or in jail), rolls_left = 0 and cash >= 0
\* in the state in which the request is received.
C6_EndTurnGateAsStated ==
    [][(ev'.op = "end_turn" /\ ~end_turn_may_pass(g, ev'.actor))
       => (~ev'.ok /\ g'.current_turn = g.current_turn)]_vars

\* the condition the handler applies: a jailed player may end the turn
\* whatever rolls_left is
end_turn_passes(gm, actor) ==
    /\ actor = Cur(gm)
    /\ gm.P[Cur(gm)].in_jail \/ (gm.rolled_this_turn /\ gm.rolls_left = 0)
    /\ gm.P[Cur(gm)].cash >= 0

\* C6: an end_turn request is accepted exactly when the actor is current, has
\* cash >= 0 and either is in jail or has rolled and has rolls_left = 0; any
\* other end_turn request is rejected and leaves current_turn unchanged.
C6_EndTurnGate ==
    [][ev'.op = "end_turn"
       => (/\ ev'.ok <=> end_turn_passes(g, ev'.actor)
           /\ ~ev'.ok => g'.current_turn = g.current_turn
           /\ ev'.ok => g'.current_turn = (g.current_turn + 1) % Len(g.players))]_vars

\* C6, its case: a jailed player who still had a roll left has ended the turn
C6_Witness ==
    /\ ev.op = "end_turn" /\ ev.ok
    /\ ev.rolls_left = 1
    /\ g.P[ev.cur].in_jail

\* C7: in every step in which the turn passes from a player P who stays in the
\* game to another player, P.cash >= 0.
C7_NoTurnPassWithNegativeCash ==
    [][(/\ HasCur(g) /\ HasCur(g')
        /\ Cur(g') /= Cur(g)
        /\ Cur(g) \in Range(g'.players))
       => g'.P[Cur(g)].cash >= 0]_vars

\* C8: a third consecutive doubles of a player who did not start the roll in
\* jail does not move the token by the dice sum, credits and charges nothing,
\* and leaves position = 10, in_jail, doubles_count = 0 and rolls_left = 0.
C8_TriplesRule ==
    [][(/\ ev'.op = "roll_dice" /\ ev'.ok
        /\ ev'.doubles /\ ~ev'.was_in_jail
        /\ th.streak = 2)
       => (/\ g'.P[ev'.cur].position = JAIL_POS
           /\ g'.P[ev'.cur].in_jail
           /\ g'.P[ev'.cur].doubles_count = 0
           /\ g'.rolls_left = 0
           /\ \A n \in Names : g'.P[n].cash = g.P[n].cash
           /\ g'.properties = g.properties
           /\ g'.debts = g.debts)]_vars

\* C8, its case: the third doubles in a row was thrown
C8_Witness == ev.op = "roll_dice" /\ th.streak = 3 /\ g.P[ev.cur].in_jail

\* C9: a jailed player who rolls doubles ends the roll with rolls_left = 0,
\* having moved by the dice sum out of jail (where no card drawn on the
\* landing tile moves the token on).
C9_JailDoubles ==
    [][(/\ ev'.op = "roll_dice" /\ ev'.ok
        /\ ev'.was_in_jail /\ ev'.doubles)
       => (/\ g'.rolls_left = 0
           /\ ev'.moved
           /\ ev'.card = NONE =>
                /\ ~g'.P[ev'.cur].in_jail
                /\ g'.P[ev'.cur].position = (g.P[ev'.cur].position + ev'.roll) % BOARD_LEN)]_vars

\* C9, its case: a jailed player threw doubles and left jail
C9_Witness ==
    /\ ev.op = "roll_dice" /\ ev.ok
    /\ ev.was_in_jail /\ ev.doubles
    /\ ev.card = NONE
    /\ g.P[ev.cur].position = (JAIL_POS + ev.roll) % BOARD_LEN

\* the roll of cur in gm lands, without passing GO or drawing a card, on a tile
\* whose rent exceeds the cash cur holds after the start-of-turn obligations
short_of_rent(gm, b, cur, roll, pos) ==
    /\ gm.P[cur].position + roll < BOARD_LEN
    /\ rent_applies(b, cur, pos)
    /\ b.P[cur].cash >= 0
    /\ base_rent(b, pos, roll) > b.P[cur].cash
    /\ ~b.P[cur].auto_mortgage

\* what C10 states of that roll: the payer pays c, owes r - c to the owner, and
\* the others are credited c in total
partial_rent_settled(b, gm2, cur, owner, r, c) ==
    /\ gm2.P[cur].cash = b.P[cur].cash - c
    /\ \E i \in DOMAIN gm2.debts[cur] :
          gm2.debts[cur][i] = [creditor |-> owner, amount |-> r - c]
    /\ gain_of_others(b, gm2, cur, b.players) = c

\* C10: when a player with cash c lands on a tile owned by another player with
\* rent r > c, the payer's cash drops by c, a debt of r - c to the owner is
\* recorded, and the owner's side is credited c in total.
C10_PartialRent ==
    [][(/\ ev'.op = "roll_dice" /\ ev'.ok /\ ev'.moved
        /\ ~ev'.was_in_jail
        /\ ev'.card = NONE
        /\ short_of_rent(g, roll_begin(g).g, ev'.cur, ev'.roll,
                         (g.P[ev'.cur].position + ev'.roll) % BOARD_LEN))
       => partial_rent_settled(roll_begin(g).g, g', ev'.cur,
              g.properties[(g.P[ev'.cur].position + ev'.roll) % BOARD_LEN].owner,
              base_rent(roll_begin(g).g, (g.P[ev'.cur].position + ev'.roll) % BOARD_LEN,
                        ev'.roll),
              roll_begin(g).g.P[ev'.cur].cash)]_vars

-----------------------------------------------------------------------------
(* The debt ledger on its own: debts incurred by one player and inflows     *)
(* routed to that player, over bounded amounts                              *)

Debtor == "B"

Creditors == {"A", "C", BANK}

DebtAmounts == {30, 70}

Inflows == {20, 30, 150}

CashOf(gm) == [n \in Names |-> gm.P[n].cash]

LedgerEv(op, amount, retained) ==
    [op |-> op, receiver |-> Debtor, amount |-> amount, retained |-> retained,
     before |-> g.debts[Debtor], cash |-> CashOf(g)]

Ledgered(gm2, e) ==
    /\ budget.ledger > 0
    /\ g' = gm2
    /\ ev' = e
    /\ budget' = [budget EXCEPT !.ledger = @ - 1]
    /\ UNCHANGED <<l, USERNAMES, now, tasks, conn, inflight, th>>

\* _debt_add(g, debtor, creditor, amount)
DebtAdd(creditor, amount) ==
    Ledgered(debt_add(g, Debtor, creditor, amount), LedgerEv("debt_add", amount, 0))

\* retained = _route_inflow(g, receiver, amount, ...); receiver.cash += retained
RouteInflow(amount) ==
    Ledgered(credit_routed(g, Debtor, amount),
             LedgerEv("route_inflow", amount, route_inflow(g, Debtor, amount).retained))

InitLedger == InitOf(MidGame(1, 0))

NextLedger ==
    \/ \E c \in Creditors, a \in DebtAmounts : DebtAdd(c, a)
    \/ \E a \in Inflows : RouteInflow(a)

SpecLedger == InitLedger /\ [][NextLedger]_vars

\* the number of leading records of a queue that an inflow pays off in full
RECURSIVE cleared(_, _)
cleared(arr, inflow) ==
    IF arr = <<>> \/ Head(arr).amount > inflow THEN 0
    ELSE 1 + cleared(Tail(arr), inflow - Head(arr).amount)

\* the queue left by paying an inflow to the records of a queue in order
fifo_rest(arr, inflow) ==
    LET k == cleared(arr, inflow)
        left == inflow - queue_total(SubSeq(arr, 1, k))
    IN IF k = Len(arr) THEN <<>>
       ELSE <<[arr[k + 1] EXCEPT !.amount = @ - left]>> \o SubSeq(arr, k + 2, Len(arr))

\* what the records of before held by creditor c lost on the way to after,
\* after being the tail of before
RECURSIVE paid_to(_, _, _)
paid_to(before, after, c) ==
    IF before = <<>> THEN 0
    ELSE IF Len(after) = Len(before)
    THEN (IF Head(before).creditor = c
          THEN Head(before).amount - Head(after).amount ELSE 0)
         + paid_to(Tail(before), Tail(after), c)
    ELSE (IF Head(before).creditor = c THEN Head(before).amount ELSE 0)
         + paid_to(Tail(before), after, c)

\* C11: routing an inflow A > 0 to a receiver whose queue totals D pays the
\* creditors in queue order; if A >= D the queue becomes empty and the receiver
\* retains A - D, otherwise the total debt falls by exactly A and the receiver
\* retains 0
C11_InflowRoutingLaw ==
    ev.op = "route_inflow" /\ ev.amount > 0 =>
        /\ g.debts[ev.receiver] = fifo_rest(ev.before, ev.amount)
        /\ \A c \in Names \ {ev.receiver} :
              g.P[c].cash = ev.cash[c] + paid_to(ev.before, g.debts[ev.receiver], c)
        /\ g.P[ev.receiver].cash = ev.cash[ev.receiver] + ev.retained
                + paid_to(ev.before, g.debts[ev.receiver], ev.receiver)
        /\ IF ev.amount >= queue_total(ev.before)
           THEN /\ g.debts[ev.receiver] = <<>>
                /\ ev.retained = ev.amount - queue_total(ev.before)
           ELSE /\ debt_total(g, ev.receiver) = queue_total(ev.before) - ev.amount
                /\ ev.retained = 0

\* an inflow has cleared one creditor's record and part of the next one's
C11_Witness ==
    /\ ev.op = "route_inflow"
    /\ Len(ev.before) >= 2
    /\ ev.before[1].creditor /= ev.before[2].creditor
    /\ ev.amount > ev.before[1].amount
    /\ ev.amount < queue_total(ev.before)
    /\ Len(g.debts[ev.receiver]) = Len(ev.before) - 1

-----------------------------------------------------------------------------
(* Estates and trades: management requests, purchases and trade offers over *)
(* a game in progress                                                       *)

\* B has lifted the mortgage on Baltic Avenue (3), built one house on
\* Mediterranean Avenue (1), turned auto-mortgage on and is down to 150
EstateGame ==
    [MidGame(1, 0) EXCEPT
        !.P["B"] = [Player(150, 32) EXCEPT !.auto_mortgage = TRUE],
        !.properties[1] = Owned("B", 1, FALSE, FALSE),
        !.properties[3] = Owned("B", 0, FALSE, FALSE)]

\* B holds the whole brown set unbuilt and unmortgaged, and Reading Railroad,
\* has turned auto-mortgage on and is 20 short of Pacific Avenue (32)
SetGame ==
    [MidGame(1, 0) EXCEPT
        !.P["B"] = [Player(280, 32) EXCEPT !.auto_mortgage = TRUE],
        !.properties[3] = Owned("B", 0, FALSE, FALSE)]

EstateScenarios == {EstateGame, SetGame, MidGame(0, 0)}

EstatePositions == {37, 39}

EstateTypes == {"mortgage", "sell_house", "sell_hotel", "buy_hotel"}

\* the offers clients send: a property for nothing
EstateOffers == { [give |-> Side(0, <<pos>>, FALSE), receive |-> NoSide, terms |-> NoTerms]
                    : pos \in {1, 3} }

InitEstate ==
    \E gm \in EstateScenarios : InitWith(gm, [Budget EXCEPT !.steps = 2 * MaxEstate])

NextEstate ==
    \/ \E sid \in {"s1"} : \E t \in EstateTypes : \E pos \in EstatePositions :
          Manage(sid, t, pos)
    \/ \E sid \in {"s2"} : BuyProperty(sid)
    \/ \E sid \in {"s2"} : \E target \in {"A"} : \E o \in EstateOffers :
          OfferTradeOf(sid, target, o)
    \/ \E sid \in {"s1"} : AcceptTrade(sid)

SpecEstate == InitEstate /\ [][NextEstate]_vars

\* a long game: RECENT_CAP offers, each made when none was pending, have been
\* accepted, and their ids fill the cache
FullCache ==
    [MidGame(1, 0) EXCEPT
        !.recent_trades = [i \in 1..RECENT_CAP |-> [n |-> 0, r |-> 2000 + i]]]

\* Trades on their own: offers from B and C to A, answered by anyone
TradeScenarios == {MidGame(1, 0), FullCache}

InitTrade ==
    \E gm \in TradeScenarios : InitWith(gm, [Budget EXCEPT !.steps = 2 * MaxTrade])

NextTrade ==
    \/ \E sid \in {"s2", "s3"} : \E target \in {"A"} : \E o \in EstateOffers :
          OfferTradeOf(sid, target, o)
    \/ \E sid \in Sids : AcceptTrade(sid)
    \/ \E sid \in Sids : DeclineTrade(sid)
    \/ \E sid \in Sids : CancelTrade(sid)

SpecTrade == InitTrade /\ [][NextTrade]_vars

ColorGroups == {TileGroup(pos) : pos \in {p \in Positions : TileType(p) = "property"}}

\* the group is owned entirely by one player
fully_owned(gm, group) ==
    \E name \in Names : \A p \in group_positions(group) : gm.properties[p].owner = name

\* houses, a hotel counting as 5
building_count(st) == st.houses + (IF st.hotel THEN 5 ELSE 0)

\* C12: in every reachable state, in a colour group owned entirely by one
\* player in which some property has houses or a hotel, no property is mortgaged
C12_GroupMortgage ==
    \A group \in ColorGroups :
        (/\ fully_owned(g, group)
         /\ \E p \in group_positions(group) : building_count(g.properties[p]) > 0)
        => \A q \in group_positions(group) : ~g.properties[q].mortgaged

\* C13: in every reachable state, in a colour group owned entirely by one
\* player, the building counts of any two properties differ by at most 1
C13_EvenBuild ==
    \A group \in ColorGroups :
        fully_owned(g, group) =>
            \A p, q \in group_positions(group) :
                building_count(g.properties[p]) - building_count(g.properties[q]) <= 1


\* the request named a pending offer
named_offer(gm, e) == find_trade(gm, e.trade)

\* what a trade can move: cash, jail cards, ownership
holdings(gm) ==
    [cash |-> [n \in Names |-> gm.P[n].cash],
     jail_cards |-> [n \in Names |-> gm.P[n].jail_cards],
     owner |-> [pos \in Ownable |-> gm.properties[pos].owner]]

trade_untouched(gm, gm2) ==
    gm2.pending_trades = gm.pending_trades /\ holdings(gm2) = holdings(gm)

\* C14: a pending offer is accepted or declined only by the actor it is
\* addressed to and cancelled only by the actor who made it; an accept, decline
\* or cancel by anyone else leaves pending_trades, cash, jail cards and
\* ownership unchanged
C14_TradeAuthorization ==
    [][/\ (ev'.op \in {"accept_trade", "decline_trade"} /\ named_offer(g, ev') /= <<>>) =>
            IF named_offer(g, ev')[1].to = ev'.actor
            THEN ev'.ok
            ELSE ~ev'.ok /\ trade_untouched(g, g')
       /\ ev'.op = "cancel_trade" =>
            IF \E i \in DOMAIN g.pending_trades :
                  g.pending_trades[i].id = ev'.trade /\ g.pending_trades[i].from = ev'.actor
            THEN ev'.ok
            ELSE ~ev'.ok /\ trade_untouched(g, g')]_vars

\* someone other than the recipient has tried to accept an offer still pending
C14_Witness ==
    /\ ev.op = "accept_trade"
    /\ ~ev.ok
    /\ \E i \in DOMAIN g.pending_trades :
          g.pending_trades[i].id = ev.trade /\ g.pending_trades[i].to /= ev.actor


\* the accepted offer moves pos from its owner to the other party
offer_moves(offer, pos, owner, new_owner) ==
    \/ pos \in Range(offer.give.properties) /\ owner = offer.from /\ new_owner = offer.to
    \/ pos \in Range(offer.receive.properties) /\ owner = offer.to /\ new_owner = offer.from

\* C15: accept_trade reassigns a position of give.properties only if offer.from
\* owns it at acceptance and a position of receive.properties only if offer.to
\* owns it; a property of a third player or of the bank is never transferred
C15_OwnershipRevalidated ==
    [][(ev'.op = "accept_trade" /\ ev'.ok) =>
          \A pos \in Ownable :
              g'.properties[pos].owner /= g.properties[pos].owner =>
                  offer_moves(named_offer(g, ev')[1], pos,
                              g.properties[pos].owner, g'.properties[pos].owner)]_vars


\* debtor's queue holds a debt to creditor
owes(gm, debtor, creditor) ==
    \E i \in DOMAIN gm.debts[debtor] :
        gm.debts[debtor][i].creditor = creditor /\ gm.debts[debtor][i].amount > 0

\* the side of the offer that payer pays owes more cash than payer holds
trade_short(gm, payer, cash) == find_player(gm, payer) /\ cash > Max(0, gm.P[payer].cash)

\* C16: when accept_trade executes an offer in which a side owes more cash than
\* it holds, the acceptance goes through and the shortfall appears as a debt of
\* the paying side with the counterparty as creditor
C16_TradeShortfallIsDebt ==
    [][(/\ ev'.op = "accept_trade"
        /\ named_offer(g, ev') /= <<>>
        /\ named_offer(g, ev')[1].to = ev'.actor
        /\ find_player(g, named_offer(g, ev')[1].from)
        /\ find_player(g, named_offer(g, ev')[1].to)) =>
          /\ ev'.ok
          /\ trade_short(g, named_offer(g, ev')[1].from, named_offer(g, ev')[1].give.cash)
                => owes(g', named_offer(g, ev')[1].from, named_offer(g, ev')[1].to)
          /\ trade_short(g, named_offer(g, ev')[1].to, named_offer(g, ev')[1].receive.cash)
                => owes(g', named_offer(g, ev')[1].to, named_offer(g, ev')[1].from)]_vars


\* C17: no two offers created in a game, pending or archived in recent_trades,
\* carry the same id, whatever the random suffixes
C17_TradeIdsUnique ==
    /\ \A i, j \in DOMAIN g.pending_trades :
          i /= j => g.pending_trades[i].id /= g.pending_trades[j].id
    /\ \A i \in DOMAIN g.pending_trades :
          g.pending_trades[i].id \notin Range(g.recent_trades)


\* C18: after any sequence of accepted, declined and cancelled offers
\* recent_trades holds at most RECENT_CAP entries
C18_RecentTradesBounded == Len(g.recent_trades) <= RECENT_CAP


\* C19: a recurring payment is charged exactly once at the start of each of the
\* payer's turns while it is on the books: when a turn of a player who had a
\* payment to make at its start ends, that payment has been charged once
C19_RecurringSchedule ==
    [][(ev'.op = "end_turn" /\ ev'.ok /\ th.due) => th.charges = 1]_vars


\* C20: turn_counts[owner] advances by exactly one per turn of the owner: when
\* the turn of a bond owner with rate > 0 who rolled ends, the owner's counter
\* is one more than when the turn began
C20_CouponCadence ==
    [][(/\ ev'.op = "end_turn" /\ ev'.ok
        /\ g.bonds[ev'.cur].rate_percent > 0
        /\ th.charges >= 1) =>
          g'.turn_counts[ev'.cur] = th.count + 1]_vars

-----------------------------------------------------------------------------
(* The vote-kick machine: votes, the kick timer, the clock and the turn     *)

\* the kick timer task of the lobby (KICK_TASKS[lid])
KickTask == [pname |-> "kick_timer", due |-> 0]

\* four players none of whom is a bot of the lobby; the fourth has lost their
\* connection during the game
FourPlayers == [MidGame(1, 0) EXCEPT !.players = <<"A", "B", "C", "Bot">>]

KickGames == {FreshGame, MidGame(1, 0), MidGame(2, 0)}

KickBudget == [Budget EXCEPT !.steps = MaxKick, !.clock = MaxClock]

InitKick ==
    \/ \E gm \in KickGames : InitWith(gm, KickBudget)
    \/ InitIn(FourPlayers, Lobby(FourPlayers.players, <<>>), KickBudget)

KickEv(op, sid, voter, target, ok) ==
    [Ev(op, sid, voter, IF HasCur(g) THEN Cur(g) ELSE NONE, ok) EXCEPT !.target = target]

\* the handler left r; the first vote against a target starts the timer task
\* unless one runs, a removal cancels it
VoteKicked(sid, target, r) ==
    /\ budget.steps > 0
    /\ l' = r.l
    /\ g' = r.g
    /\ tasks' = IF r.out = "kicked" THEN tasks \ {KickTask}
                ELSE IF r.out = "voted" /\ l.kick_target /= target
                THEN tasks \cup {KickTask}
                ELSE tasks
    /\ ev' = KickEv("vote_kick", sid, sid_name(l, sid), target, r.out \in {"voted", "kicked"})
    /\ th' = IF TurnPassed(g, r.g) THEN turn_start(r.g) ELSE th
    /\ budget' = [budget EXCEPT !.steps = @ - 1]
    /\ UNCHANGED <<USERNAMES, now, conn, inflight>>

VoteKick(sid, target) == HasCur(g) /\ VoteKicked(sid, target, vote_kick(l, g, sid, target, now))

\* the timer task wakes: it ends when there is nothing to watch, and at the
\* deadline it removes the target or gives up
KickTimed(r, kicked) ==
    /\ tasks' = tasks \ {KickTask}
    /\ l' = r.l
    /\ g' = r.g
    /\ ev' = KickEv("kick_timer", NONE, NONE, l.kick_target, kicked)
    /\ th' = IF TurnPassed(g, r.g) THEN turn_start(r.g) ELSE th
    /\ UNCHANGED <<USERNAMES, now, conn, inflight, budget>>

KickTimer ==
    /\ KickTask \in tasks
    /\ IF l.deleted \/ l.kick_target = NONE \/ l.kick_deadline = NoDeadline
       THEN KickTimed([l |-> l, g |-> g], FALSE)
       ELSE /\ now >= l.kick_deadline
            /\ KickTimed(kick_timer_fire(l, g), kick_timer_fire(l, g).kicked)

\* the requests of play come from the player whose turn it is
TurnOf(sid) == HasCur(g) /\ actor_of(l, USERNAMES, sid) = Cur(g)

\* the players a vote names: the current one and one who is not
KickTargets ==
    IF HasCur(g) THEN {Cur(g), g.players[((g.current_turn + 1) % Len(g.players)) + 1]}
    ELSE {}

NextKick ==
    \/ \E sid \in Sids : \E target \in KickTargets : VoteKick(sid, target)
    \/ KickTimer
    \/ Tick
    \/ \E sid \in Sids : TurnOf(sid) /\ RollDice(sid)
    \/ \E sid \in Sids : TurnOf(sid) /\ EndTurn(sid)
    \/ BotTick

SpecKick == InitKick /\ [][NextKick]_vars

-----------------------------------------------------------------------------
(* Properties of the vote-kick machine                                      *)

\* the voters against target once the vote of the step is counted
votes_after(lb, e) == lb.kick_votes[e.target] \cup {e.actor}

\* the vote of the step reaches the removal threshold
reaches_threshold(lb, e) == Cardinality(votes_after(lb, e)) > non_bot_total(lb) \div 2

removed_players(gm, gm2) == Range(gm.players) \ Range(gm2.players)

\* every property name owned in gm is with the bank, bare and unmortgaged, in gm2
released_to_bank(gm, gm2, name) ==
    \A pos \in Ownable :
        gm.properties[pos].owner = name => gm2.properties[pos] = PropertyState

\* C22: a vote_kick request during a game removes a player only if that
\* player is the target, is the current-turn player, and the distinct voters
\* against them (the new vote included) are strictly more than half of the
\* lobby's non-bot players; then every property of the target is unowned,
\* without buildings and unmortgaged, and the target is no longer in
\* game.players.
C22_KickThreshold ==
    [][(ev'.op = "vote_kick" /\ l.has_game) =>
          \A name \in removed_players(g, g') :
              /\ name = ev'.target
              /\ name = Cur(g)
              /\ 2 * Cardinality(votes_after(l, ev')) > non_bot_total(l)
              /\ released_to_bank(g, g', name)
              /\ ~find_player(g', name)]_vars

\* B, a property owner, has been voted out by two of the three humans
C22_Witness ==
    /\ ev.op = "vote_kick" /\ ev.ok /\ ev.target = "B"
    /\ ~find_player(g, "B")
    /\ g.properties[1] = PropertyState
    /\ non_bot_total(l) = 2


\* C23: after the vote-kick target has an accepted roll_dice (whatever its
\* outcome) or an accepted end_turn, the lobby has no kick target, no kick
\* deadline and no recorded votes against that player.
C23_ActivityCancelsKick ==
    [][(ev'.op \in {"roll_dice", "end_turn"} /\ ev'.ok /\ l.kick_target = ev'.cur) =>
          /\ l'.kick_target = NONE
          /\ l'.kick_deadline = NoDeadline
          /\ l'.kick_votes[ev'.cur] = {}]_vars

-----------------------------------------------------------------------------
(* The lobby machine: start, reset, rematch, the lobby list and the sweep   *)

\* {sid for sid, name in l.sid_to_name.items() if name in non_bot_players}
non_bot_sids(lb) ==
    {lb.sid_to_name[i].sid : i \in {j \in DOMAIN lb.sid_to_name :
        /\ lb.sid_to_name[j].name \in Range(lb.players)
        /\ lb.sid_to_name[j].name \notin Range(lb.bots)}}

all_ready_unchecked(lb) == TRUE

\* non_bot_sids.issubset(ready_sids)
all_ready(lb) == non_bot_sids(lb) \subseteq lb.ready

\* lobby_start: the error, or "" when the game is created
start_error(lb, sid) ==
    IF lb.deleted THEN "Lobby missing"
    ELSE IF sid /= lb.host_sid THEN "Only host"
    ELSE IF Len(lb.players) < 2 THEN "Need at least 2 players"
    ELSE IF ~all_ready(lb) THEN "Not all players ready"
    ELSE ""

\* l.game = game: a new Game object
attach_game(lb) == [lb EXCEPT !.has_game = TRUE, !.game_no = lb.game_no + 1]

\* _lobby_visible
lobby_visible(lb) == ~lb.has_game /\ Len(lb.players) /= 0

\* [lobby_state(x) for x in LOBBIES.values() if _lobby_visible(x)]
visible_list(lb) == IF ~lb.deleted /\ lobby_visible(lb) THEN "lobby" ELSE "empty"

\* [lobby_state(x) for x in LOBBIES.values() if not x.game]
gameless_list(lb) == IF ~lb.deleted /\ ~lb.has_game THEN "lobby" ELSE "empty"

\* lobby_reset, by the host
lobby_reset(lb) ==
    [lb EXCEPT !.has_game = FALSE,
               !.game_no = 0,
               !.kick_votes = [n \in DOMAIN @ |-> {}],
               !.kick_target = NONE,
               !.kick_deadline = NoDeadline,
               !.disconnect_deadlines = [n \in DOMAIN @ |-> NoDeadline]]

\* lobby_rematch, by the host sid: the new lobby that takes the place of lb
lobby_rematch(lb, sid) ==
    [id |-> lb.id + 1,
     deleted |-> FALSE,
     has_game |-> FALSE,
     game_no |-> 0,
     players |-> dedupe(lb.players, {}),
     sid_to_name |-> lb.sid_to_name,
     ready |-> {},
     host_sid |-> sid,
     bots |-> lb.bots,
     disconnect_deadlines |-> [n \in DOMAIN lb.disconnect_deadlines |-> NoDeadline],
     kick_votes |-> [n \in DOMAIN lb.kick_votes |-> {}],
     kick_target |-> NONE,
     kick_deadline |-> NoDeadline]

\* next(iter(l.sid_to_name.keys()), l.host_sid)
next_host(lb) == IF lb.sid_to_name /= <<>> THEN lb.sid_to_name[1].sid ELSE lb.host_sid

\* leave_lobby of a mapped connection
leave_lobby(lb, sid) ==
    LET name == sid_name(lb, sid)
        l1 == [lb EXCEPT !.sid_to_name = SelectSeq(@, LAMBDA e : e.sid /= sid)]
        l2 == IF ~lb.has_game /\ name \in Range(l1.players)
              THEN [l1 EXCEPT !.players = remove_first(@, name)] ELSE l1
    IN IF lb.host_sid = sid THEN [l2 EXCEPT !.host_sid = next_host(l2)] ELSE l2

\* lobby_ready
lobby_ready(lb, sid, ready) ==
    [lb EXCEPT !.ready = IF ready THEN @ \cup {sid} ELSE @ \ {sid}]

\* a sweep that drops the stale mappings before it rebuilds the players
sweep_stale_first(lb, gm, live) ==
    IF lb.deleted THEN lb
    ELSE [lb EXCEPT !.players = dedupe(connected_names(lb, live) \o lb.bots, {}),
                    !.sid_to_name = SelectSeq(@, LAMBDA e : e.name \in Range(lb.players))]

\* the sweep over LOBBIES
sweep(lb, gm, live) == IF lb.deleted THEN lb ELSE lobby_consistency_pass(lb, gm, live)

sid_keys(lb) == {lb.sid_to_name[i].sid : i \in DOMAIN lb.sid_to_name}

\* the sweep's return value
sweep_changed(lb, lb2) ==
    \/ lb2.players /= lb.players
    \/ sid_keys(lb2) /= sid_keys(lb)
    \/ lb2.deleted /= lb.deleted

\* the delayed delete task of leave_lobby
DeleteTask == [pname |-> "delayed_delete", due |-> 0]

LobbyEv(op, sid, ok, listed) ==
    [Ev(op, sid, sid_name(l, sid), NONE, ok) EXCEPT !.listed = listed]

\* the frame of a lobby handler
Lobbied(lb2, gm2, tasks2, e) ==
    /\ budget.session > 0
    /\ l' = lb2
    /\ g' = gm2
    /\ tasks' = tasks2
    /\ ev' = e
    /\ th' = IF gm2 = g THEN th ELSE turn_start(gm2)
    /\ budget' = SessionSpend
    /\ UNCHANGED <<USERNAMES, now, conn, inflight>>

LobbyStart(sid) ==
    IF start_error(l, sid) /= ""
    THEN Lobbied(l, g, tasks, LobbyEv("lobby_start", sid, FALSE, NONE))
    ELSE Lobbied(attach_game(l), Game(l.players, STARTING_CASH), tasks,
                 LobbyEv("lobby_start", sid, TRUE, gameless_list(attach_game(l))))

LobbyReset(sid) ==
    /\ ~l.deleted
    /\ IF sid /= l.host_sid
       THEN Lobbied(l, g, tasks, LobbyEv("lobby_reset", sid, FALSE, NONE))
       ELSE Lobbied(lobby_reset(l), g, tasks \ {KickTask},
                    LobbyEv("lobby_reset", sid, TRUE, gameless_list(lobby_reset(l))))

LobbyRematch(sid) ==
    IF l.deleted \/ sid /= l.host_sid
    THEN Lobbied(l, g, tasks, LobbyEv("lobby_rematch", sid, FALSE, NONE))
    ELSE Lobbied(lobby_rematch(l, sid), g, tasks,
                 LobbyEv("lobby_rematch", sid, TRUE, gameless_list(lobby_rematch(l, sid))))

\* lobby_list: the sweep without broadcast, then the list for the caller
LobbyList(sid) ==
    Lobbied(sweep(l, g, LiveSids), g, tasks,
            LobbyEv("lobby_list", sid, TRUE, visible_list(sweep(l, g, LiveSids))))

\* the validator's loop: the sweep, broadcasting the list on a change
\* ev.repeat: the event before this sweep was a sweep that changed something
Sweep ==
    Lobbied(sweep(l, g, LiveSids), g, tasks,
            [LobbyEv("consistency_pass", NONE, sweep_changed(l, sweep(l, g, LiveSids)),
                     IF sweep_changed(l, sweep(l, g, LiveSids))
                     THEN visible_list(sweep(l, g, LiveSids)) ELSE NONE)
                EXCEPT !.repeat = (ev.op = "consistency_pass" /\ ev.ok)])

LeaveLobby(sid) ==
    /\ ~l.deleted
    /\ sid_mapped(l, sid)
    /\ Lobbied(leave_lobby(l, sid), g,
               IF ~l.has_game /\ leave_lobby(l, sid).players = <<>>
               THEN tasks \cup {DeleteTask} ELSE tasks,
               LobbyEv("leave_lobby", sid, TRUE, NONE))

\* the delayed delete wakes up; it ends with a sweep
DelayedDelete ==
    /\ DeleteTask \in tasks
    /\ tasks' = tasks \ {DeleteTask}
    /\ l' = IF ~l.deleted /\ ~l.has_game /\ l.players = <<>>
            THEN [l EXCEPT !.deleted = TRUE] ELSE l
    /\ ev' = LobbyEv("delayed_delete", NONE, l'.deleted /= l.deleted, NONE)
    /\ UNCHANGED <<g, USERNAMES, now, conn, inflight, th, budget>>

LobbyReady(sid, ready) ==
    /\ ~l.deleted
    /\ Lobbied(lobby_ready(l, sid, ready), g, tasks, LobbyEv("lobby_ready", sid, TRUE, NONE))

\* a lobby before the start: A hosts, B and C have joined, nobody is ready
PreGame ==
    [Lobby(<<"A", "B", "C">>, <<>>) EXCEPT !.has_game = FALSE, !.game_no = 0]

\* the lobby of a game in progress, everybody ready as lobby_start found them
Started(players) ==
    [Lobby(players, SelectSeq(players, LAMBDA n : n \in Bots)) EXCEPT !.ready = {"s1", "s2", "s3"}]

LobbyBudget == [Budget EXCEPT !.session = MaxLobby]

InitLobby ==
    \/ InitIn(MidGame(1, 0), PreGame, LobbyBudget)
    \/ InitIn(MidGame(1, 0), Started(MidGame(1, 0).players), LobbyBudget)
    \/ InitIn(LastStanding, Started(<<"A", "B", "C">>), LobbyBudget)

NextLobby ==
    \/ \E sid \in Sids : LobbyStart(sid)
    \/ \E sid \in Sids : LobbyReset(sid)
    \/ \E sid \in Sids : LobbyRematch(sid)
    \/ \E sid \in Sids : LobbyList(sid)
    \/ Sweep
    \/ \E sid \in Sids : LeaveLobby(sid)
    \/ DelayedDelete
    \/ \E sid \in Sids : \E ready \in BOOLEAN : LobbyReady(sid, ready)
    \/ \E sid \in Sids : LobbyJoin(sid)
    \/ \E sid \in Sids : Disconnect(sid)

SpecLobby == InitLobby /\ [][NextLobby]_vars

\* the sweep among the events that take players and connections apart
SweepBudget == [Budget EXCEPT !.session = MaxSweep, !.steps = 2]

InitSweep ==
    \/ InitIn(MidGame(1, 0), PreGame, SweepBudget)
    \/ InitIn(MidGame(1, 0), Started(MidGame(1, 0).players), SweepBudget)
    \/ InitIn(LastStanding, Started(<<"A", "B", "C">>), SweepBudget)

NextSweep ==
    \/ Sweep
    \/ \E sid \in Sids : LobbyList(sid)
    \/ \E sid \in Sids : LeaveLobby(sid)
    \/ DelayedDelete
    \/ \E sid \in Sids : Disconnect(sid)
    \/ \E sid \in Sids : HasCur(g) /\ VoteKick(sid, Cur(g))

SpecSweep == InitSweep /\ [][NextSweep]_vars

-----------------------------------------------------------------------------
(* Properties of the lobby machine                                          *)

\* the connection is mapped to a player of the lobby who is not a bot
non_bot_connection(lb, e) == e.name \in Range(lb.players) /\ e.name \notin Range(lb.bots)

\* the conditions under which start_game goes through
start_allowed(lb, sid) ==
    /\ ~lb.deleted
    /\ sid = lb.host_sid
    /\ Len(lb.players) >= 2
    /\ \A i \in DOMAIN lb.sid_to_name :
          non_bot_connection(lb, lb.sid_to_name[i]) => lb.sid_to_name[i].sid \in lb.ready

\* C24: lobby_start attaches a game only if the caller is the host
\* connection, the lobby has at least 2 players and every connection of a
\* non-bot player of the lobby is in the ready set; otherwise it returns an
\* error and lobby.game is unchanged.
C24_StartGating ==
    [][ev'.op = "lobby_start" =>
          /\ (l'.game_no /= l.game_no \/ ev'.ok) => start_allowed(l, ev'.sid)
          /\ ~start_allowed(l, ev'.sid) =>
                (~ev'.ok /\ l'.has_game = l.has_game /\ l'.game_no = l.game_no /\ g' = g)]_vars

\* the host has started the first game of a lobby in which everybody is ready
C24_Witness ==
    /\ ev.op = "lobby_start" /\ ev.ok /\ ev.sid = l.host_sid
    /\ l.has_game /\ l.game_no = 1
    /\ non_bot_sids(l) = {"s1", "s2", "s3"} /\ non_bot_sids(l) \subseteq l.ready
    /\ g = Game(l.players, STARTING_CASH)


\* C25: every lobby_list payload the server emits contains only lobbies that
\* have game = null and at least one player.
C25_ListedLobbiesVisible ==
    ev.listed = "lobby" => (~l.deleted /\ ~l.has_game /\ Len(l.players) >= 1)


\* C26: once a game is attached to a lobby, lobby.game keeps referring to
\* that same game (also after game_over) in every later step, except for a
\* rematch or reset by the host and the deletion of the lobby.
C26_GamePersists ==
    [][(l.has_game /\ ~l.deleted /\ ev'.op \notin {"lobby_rematch", "lobby_reset"}
          /\ ~l'.deleted) =>
          (l'.id = l.id /\ l'.has_game /\ l'.game_no = l.game_no)]_vars


\* C27: the lobby consistency sweep is idempotent: when the sweep runs twice
\* with no event in between, the second run changes neither the lobby's
\* players, nor its connection map, nor the set of lobbies, and broadcasts
\* no lobby_list.
C27_SweepIdempotent ==
    [][(ev.op = "consistency_pass" /\ ev'.op = "consistency_pass") =>
          /\ l'.players = l.players
          /\ l'.sid_to_name = l.sid_to_name
          /\ l'.deleted = l.deleted
          /\ ev'.listed = NONE]_vars

\* a sweep that changed the lobby and broadcast the list was followed by
\* another sweep
C27_Witness ==
    /\ ev.op = "consistency_pass" /\ ev.repeat /\ ~ev.ok /\ ev.listed = NONE
    /\ l.deleted

-----------------------------------------------------------------------------
(* Properties of the bot driver and the round counter                       *)

\* C28: once game_over is set for the lobby's game, no later tick of the bot
\* driver rolls, buys, charges or changes the turn: a tick leaves the game
\* as it is.
C28_BotHaltsAtGameOver ==
    [][(ev'.op = "bot_tick" /\ g.game_over.over) => g' = g]_vars

\* the turn of the bot that was current has passed on: the turn counter
\* moved, or the bot is no longer in the game
bot_turn_passed(gm, gm2, bot) == gm2.turns /= gm.turns \/ ~find_player(gm2, bot)

\* C29: every driver tick in which the current player is a bot completes
\* that bot's whole turn: at the end of the tick the turn has passed on
\* (current_turn advanced, or the bot removed by bankruptcy), so no second
\* tick rolls for the bot, or charges it, within the same turn.
C29_OneTickOneTurn ==
    [][ev'.op = "bot_tick" => bot_turn_passed(g, g', ev'.cur)]_vars

\* the step ends a turn, by end_turn or by the bot driver, and takes
\* current_turn from a non-zero index to index 0
wraps_round(gm, gm2, e) ==
    /\ \/ e.op = "end_turn" /\ e.ok
       \/ e.op = "bot_tick" /\ gm2.last_action = LastAction("end_turn", e.cur, NONE)
    /\ gm.current_turn /= 0
    /\ gm2.current_turn = 0

\* C30: round increases by exactly one in every step in which the end of a
\* turn (human end_turn or bot driver) moves current_turn from a non-zero
\* index to index 0, and is unchanged by every other step.
C30_RoundCounter ==
    [][g'.round = g.round + (IF wraps_round(g, g', ev') THEN 1 ELSE 0)]_vars


-----------------------------------------------------------------------------
(* Property rentals over the turns of a game with a bot                     *)

MaxRental == 4

\* A, B and the bot play; B has paid A 50 for half of the rent of
\* Mediterranean Avenue (1) over the next two turns; the player at index turn
\* is to move
RentalDeal(turn) ==
    accept_trade(
        offer_trade([Game(<<"A", "B", "Bot">>, STARTING_CASH) EXCEPT
                        !.current_turn = turn,
                        !.properties[1] = Owned("A", 0, FALSE, FALSE),
                        !.porder = <<1>>],
                    "A", "B", NoSide, Side(50, <<>>, FALSE),
                    [payments |-> <<>>,
                     rentals |-> <<[properties |-> {1}, percentage |-> 50, turns |-> 2,
                                    direction |-> "give"]>>],
                    FirstTradeId.r).g,
        "B", FirstTradeId).g

RentalBudget == [Budget EXCEPT !.steps = MaxRental]

InitRental == \E turn \in 0..2 : InitWith(RentalDeal(turn), RentalBudget)

NextRental ==
    \/ \E sid \in Sids : TurnOf(sid) /\ RollDice(sid)
    \/ \E sid \in Sids : TurnOf(sid) /\ EndTurn(sid)
    \/ BotTick

SpecRental == InitRental /\ [][NextRental]_vars

\* the turns_left of the rentals of gm, in list order
rental_turns(gm) == [i \in DOMAIN gm.property_rentals |-> gm.property_rentals[i].turns_left]

\* the same one turn end later: each one less, those at zero gone
aged(turns) == SelectSeq([i \in DOMAIN turns |-> turns[i] - 1], LAMBDA k : k > 0)

\* the step ends a turn: an accepted end_turn, or the bot driver's end of turn
turn_ended(e, gm2) ==
    \/ e.op = "end_turn" /\ e.ok
    \/ e.op = "bot_tick" /\ gm2.last_action.type = "end_turn"

\* C31: every turn end, by a human's end_turn or by the bot driver, takes one
\* turn off every property rental and removes those that reach zero
C31_RentalExpiry ==
    [][turn_ended(ev', g') => rental_turns(g') = aged(rental_turns(g))]_vars

\* a rental of two turns is gone after two human turn ends
C31_HumanExpiry ==
    /\ ev.op = "end_turn" /\ ev.ok /\ ev.actor = "B"
    /\ g.property_rentals = <<>>
    /\ g.turns = 2


-----------------------------------------------------------------------------
(* Stocks: stock_settings, stock_invest, stock_sell.                        *)
(* Holdings are percents the code rounds to nine decimals; they are kept    *)
(* here as integers in units of 10^-9.  Quotients are computed exactly, in  *)
(* limbs of 1000 so that no intermediate product leaves the integer range.  *)
(* Where the float result hangs on representation error (a value on a       *)
(* rounding boundary) the outcome is the input tie: 1 rounds up, 0 down.    *)

PPB == 1000000000

LIMB == 1000

\* "Drop dust below 0.000001"
DUST == 1000

\* the width, in units of 10^-18, of the band around a half in which the
\* float product new_hold[k] * scale may round either way
FLOAT_SLACK == 1000

\* "if 0.0001 < total_pct_accum < 1.9999"
DRIFT_LOW == 100000
DRIFT_HIGH == 1999900000

HolderSeq == <<"A", "B", "C", "Bot">>

\* sum(float(v or 0.0) for v in hold.values())
hold_sum(hold) == SeqSum([i \in DOMAIN HolderSeq |-> hold[HolderSeq[i]]])

\* p * n for a percent p and dollars n, as h * PPB + l with 0 <= l < PPB
product(p, n) ==
    LET t0 == (p % LIMB) * n
        t1 == ((p \div LIMB) % LIMB) * n + (t0 \div LIMB)
        t2 == (p \div (LIMB * LIMB)) * n + (t1 \div LIMB)
    IN [h |-> t2 \div LIMB,
        l |-> (t2 % LIMB) * LIMB * LIMB + (t1 % LIMB) * LIMB + (t0 % LIMB)]

\* int(p_cur * float(P)): the float product of an exact whole number of
\* dollars may fall just below it
stake_dollars(p, n, tie) ==
    LET x == product(p, n)
    IN IF x.l = 0 /\ x.h > 0 /\ tie = 0 THEN x.h - 1 ELSE x.h

\* the stake p * n + m dollars as a share of the pool d > 0, in units of
\* 10^-9: floor q and remainder r; q = PPB stands for every share of 1.0 or
\* more, q = -1 for every negative one
quotient(p, n, m, d) ==
    LET x == product(p, n)
        c2 == (x.h + m) * LIMB + (x.l \div (LIMB * LIMB))
        c1 == (c2 % d) * LIMB + ((x.l \div LIMB) % LIMB)
        c0 == (c1 % d) * LIMB + (x.l % LIMB)
    IN IF x.h + m < 0 THEN [q |-> -1, r |-> 0]
       ELSE IF x.h + m >= d THEN [q |-> PPB, r |-> 0]
       ELSE [q |-> (c2 \div d) * LIMB * LIMB + (c1 \div d) * LIMB + (c0 \div d),
             r |-> c0 % d]

\* round(pct, 9)
round_half(x, d, tie) ==
    x.q + (IF 2 * x.r > d \/ (2 * x.r = d /\ tie = 1) THEN 1 ELSE 0)

\* one pass of the loop over stakes.items(): the new percent of a holder, 0
\* when the holder gets no entry
stake_pct(x, d, tie) ==
    IF x.q < 0 \/ (x.q = 0 /\ x.r = 0) THEN 0
    ELSE IF x.q >= PPB THEN PPB
    ELSE IF x.q < DUST THEN 0
    ELSE round_half(x, d, tie)

\* round(new_hold[k] * scale, 9) with scale = 1.0 / total and total > 1.0:
\* pct * PPB / total = pct - pct * e / total for e = total - PPB
scale_down(pct, total, tie) ==
    LET e == total - PPB
        x == product(pct, e)
        rest == x.l - x.h * e
        cut == IF rest < 0 THEN x.h - 1 ELSE x.h
        r == IF rest < 0 THEN rest + total ELSE rest
        gap == (total - r) - r
    IN IF r = 0 THEN pct - cut
       ELSE (pct - cut - 1)
              + (IF gap > FLOAT_SLACK THEN 1 ELSE IF gap < -FLOAT_SLACK THEN 0 ELSE tie)

\* "Normalize if accumulated percent drifts from 1.0", then the final cleanup
normalise(new_hold, tie) ==
    IF DRIFT_LOW < hold_sum(new_hold) /\ hold_sum(new_hold) < DRIFT_HIGH
       /\ hold_sum(new_hold) > PPB
    THEN [k \in Names |-> Max(0, scale_down(new_hold[k], hold_sum(new_hold), tie))]
    ELSE new_hold

\* (a handler that adds the new stake's share and leaves the other holdings)
restake_in_place(hold, holder, P, delta, tie) ==
    IF P + delta <= 0 THEN [k \in Names |-> 0]
    ELSE [hold EXCEPT ![holder] =
             stake_pct(quotient(@, P, delta, P + delta), P + delta, tie)]

\* "Recalculate percents based on dollar stakes": the pool was P, holder
\* changes the stake by delta dollars, the pool becomes P + delta
restake(hold, holder, P, delta, tie) ==
    IF P + delta <= 0 THEN [k \in Names |-> 0]
    ELSE normalise(
           [k \in Names |->
               stake_pct(quotient(hold[k], P, IF k = holder THEN delta ELSE 0, P + delta),
                         P + delta, tie)],
           tie)

stock_denied(gm, t, by, reason) ==
    [gm EXCEPT !.last_action = LastAction(t, by, reason)]

\* stock_settings: payload carries every setting
stock_settings(gm, actor, owner, payload) ==
    IF owner = NONE THEN stock_denied(gm, "stock_settings_denied", NONE, "missing_owner")
    ELSE IF actor /= owner THEN stock_denied(gm, "stock_settings_denied", actor, owner)
    ELSE [gm EXCEPT
            !.stocks[owner] = [payload EXCEPT !.holdings = gm.stocks[owner].holdings,
                                              !.min_buy = Max(0, @),
                                              !.min_pool_total = Max(0, @),
                                              !.min_pool_owner = Max(0, @)],
            !.last_action = LastAction("stock_settings", owner, NONE)]

\* the first reason stock_invest is denied for, NONE when it goes through
invest_denial(gm, investor, owner, A) ==
    LET st == gm.stocks[owner]
        P == gm.P[owner].cash
        owner_percent == Max(0, PPB - hold_sum(st.holdings))
    IN IF investor = owner THEN "owner_cannot_invest"
       ELSE IF ~st.allow_investing THEN "disabled"
       ELSE IF A <= 0 THEN "invalid_amount"
       ELSE IF st.enforce_min_pool_total /\ st.min_pool_total > 0 /\ P < st.min_pool_total
       THEN "below_min_pool_total"
       ELSE IF st.enforce_min_pool_owner /\ st.min_pool_owner > 0
               /\ product(owner_percent, P).h < st.min_pool_owner
       THEN "below_min_pool_owner"
       ELSE IF st.enforce_min_buy /\ st.min_buy > 0 /\ A < st.min_buy THEN "below_min"
       ELSE IF gm.P[investor].cash < A THEN "insufficient_cash"
       ELSE NONE

stock_invest(gm, investor, owner, A, tie) ==
    IF owner = NONE THEN stock_denied(gm, "stock_invest_denied", NONE, "missing_owner")
    ELSE IF ~find_player(gm, investor) \/ ~find_player(gm, owner)
    THEN stock_denied(gm, "stock_invest_denied", NONE, "player_missing")
    ELSE IF invest_denial(gm, investor, owner, A) /= NONE
    THEN stock_denied(gm, "stock_invest_denied", investor,
                      invest_denial(gm, investor, owner, A))
    ELSE [credit_routed([gm EXCEPT !.P[investor].cash = @ - A], owner, A) EXCEPT
            !.stocks[owner].holdings =
                restake(gm.stocks[owner].holdings, investor, gm.P[owner].cash, A, tie),
            !.last_action = LastAction("stock_invest", investor, NONE)]

\* "Determine S (cash to redeem)", clamped by the stake and the owner's cash;
\* the request names a percent (1 for 1.0) or an amount
redeem(req, E, P) ==
    Max(0, Min(Min(IF req.percent > 0 THEN E ELSE IF req.amount > 0 THEN req.amount ELSE 0,
                   E), P))

stock_sell(gm, investor, owner, req, tie) ==
    IF owner = NONE THEN stock_denied(gm, "stock_sell_denied", NONE, "missing_owner")
    ELSE IF ~find_player(gm, investor) \/ ~find_player(gm, owner)
    THEN stock_denied(gm, "stock_sell_denied", NONE, "player_missing")
    ELSE IF gm.P[owner].cash <= 0 \/ gm.stocks[owner].holdings[investor] <= 0
    THEN stock_denied(gm, "stock_sell_denied", investor, "no_stake_or_pool")
    ELSE IF redeem(req, stake_dollars(gm.stocks[owner].holdings[investor],
                                      gm.P[owner].cash, tie), gm.P[owner].cash) <= 0
    THEN stock_denied(gm, "stock_sell_denied", investor, "invalid_amount")
    ELSE LET P == gm.P[owner].cash
             S == redeem(req, stake_dollars(gm.stocks[owner].holdings[investor], P, tie), P)
         IN [credit_routed([gm EXCEPT !.P[owner].cash = @ - S], investor, S) EXCEPT
                !.stocks[owner].holdings =
                    restake(gm.stocks[owner].holdings, investor, P, -S, tie),
                !.last_action = LastAction("stock_sell", investor, NONE)]

-----------------------------------------------------------------------------
(* Stock requests in a running game                                         *)

MaxStock == 8

\* the owner lets others invest
Open == [NoStock EXCEPT !.allow_investing = TRUE]

\* the owner lets others invest 200 or more
Gated == [Open EXCEPT !.enforce_min_buy = TRUE, !.min_buy = 200]

Amounts == {101, 1023}

SellRequests == {[percent |-> 1, amount |-> 0], [percent |-> 0, amount |-> 100]}

\* B, overdrawn by 100, and A have opened their pools
StockGames ==
    {stock_settings(stock_settings(Overdrawn, "B", "B", Open), "A", "A", Open),
     stock_settings(MidGame(0, 0), "A", "A", Open)}

StockBudget == [Budget EXCEPT !.steps = MaxStock]

InitStock == \E gm \in StockGames : InitWith(gm, StockBudget)

\* the handler left g2; the request went through when last_action names it
StockServed(sid, t, owner, g2) ==
    Handled(g2, l,
            [Ev(t, sid, actor_of(l, USERNAMES, sid), Cur(g), g2.last_action.type = t)
                EXCEPT !.target = owner],
            th, "ops")

StockSettings(sid, owner, payload) ==
    /\ Serving
    /\ StockServed(sid, "stock_settings", owner,
                   stock_settings(g, actor_of(l, USERNAMES, sid), owner, payload))

StockInvest(sid, owner, A, tie) ==
    /\ Serving
    /\ StockServed(sid, "stock_invest", owner,
                   stock_invest(g, actor_of(l, USERNAMES, sid), owner, A, tie))

StockSell(sid, owner, req, tie) ==
    /\ Serving
    /\ StockServed(sid, "stock_sell", owner,
                   stock_sell(g, actor_of(l, USERNAMES, sid), owner, req, tie))

NextStock ==
    \/ \E sid \in Sids : \E owner \in Range(g.players) : \E payload \in {Open, Gated} :
          StockSettings(sid, owner, payload)
    \/ \E sid \in Sids : \E owner \in Range(g.players) : \E A \in Amounts :
          \E tie \in {0, 1} : StockInvest(sid, owner, A, tie)
    \/ \E sid \in Sids : \E owner \in Range(g.players) : \E req \in SellRequests :
          \E tie \in {0, 1} : StockSell(sid, owner, req, tie)

SpecStock == InitStock /\ [][NextStock]_vars

\* C32: after any sequence of stock_invest and stock_sell, whatever the
\* owners' cash did in between, the external holdings of every owner add up
\* to at most 1.0 (+ 0.000001)
C32_HoldingsBound ==
    \A owner \in Names : hold_sum(g.stocks[owner].holdings) <= PPB + (PPB \div 1000000)

\* an investor redeemed part of a stake from a pool two investors hold
C32_Witness ==
    /\ ev.op = "stock_sell" /\ ev.ok
    /\ Cardinality({k \in Names : g.stocks[ev.target].holdings[k] > 0}) = 2

\* the holdings 1/1024 and 1023/1024, both rounded up, were scaled back to 1.0
C32_Normalised ==
    /\ ev.op = "stock_invest" /\ ev.ok
    /\ g.stocks["B"].holdings["A"] = 976563
    /\ g.stocks["B"].holdings["C"] = 999023437


-----------------------------------------------------------------------------
(* Properties of the auto-mortgage order                                    *)

\* the properties of name the step from g1 to g2 mortgaged
newly_mortgaged(g1, g2, name) ==
    {pos \in Ownable : /\ g1.properties[pos].owner = name
                       /\ ~g1.properties[pos].mortgaged
                       /\ g2.properties[pos].mortgaged}

\* the singletons of name that _auto_mortgage_for_cash may mortgage
eligible_singletons(gm, name) ==
    {q \in Ownable : can_auto_mortgage(gm, name, q) /\ is_singleton(gm, name, q)}

\* C33: when a purchase auto-mortgages a property of a fully owned colour set,
\* every eligible singleton of the buyer has been mortgaged as well
C33_SingletonsFirst ==
    [][ev'.op = "buy_property" =>
         \A pos \in newly_mortgaged(g, g', ev'.actor) :
            ~is_singleton(g, ev'.actor, pos) =>
               \A q \in eligible_singletons(g, ev'.actor) : g'.properties[q].mortgaged]_vars


-----------------------------------------------------------------------------
(* Properties of the removal of players                                     *)

\* C34: when a player who is not to move goes bankrupt, the player to move is
\* the same person after the removal as before
C34_TurnKept ==
    [][(ev'.op = "bankrupt" /\ ev'.ok /\ ev'.actor /= ev'.cur)
          => (HasCur(g') /\ Cur(g') = ev'.cur)]_vars


\* the step removes or passes the player to move: an end of turn, a bot
\* turn, or the bankruptcy of the player to move
turn_changing(e) ==
    \/ e.op \in {"end_turn", "bot_tick"}
    \/ e.op = "bankrupt" /\ e.actor = e.cur

\* C35: whenever such a step changes the player to move of a game that goes
\* on, the new player's turn begins with rolls_left = 1 and
\* rolled_this_turn = FALSE
C35_FreshTurn ==
    [][(turn_changing(ev') /\ HasCur(g) /\ HasCur(g') /\ Cur(g') /= Cur(g)
          /\ ~g'.game_over.over)
          => (g'.rolls_left = 1 /\ ~g'.rolled_this_turn)]_vars


-----------------------------------------------------------------------------
(* Trades that outlive a player                                             *)

MaxLeave == 3

\* the offers clients send: cash for a property of the other side, or a
\* property for nothing
LeaveOffers ==
    {[give |-> Side(100, <<>>, FALSE), receive |-> Side(0, <<39>>, FALSE), terms |-> NoTerms],
     [give |-> Side(0, <<5>>, FALSE), receive |-> NoSide, terms |-> NoTerms]}

InitLeave == InitWith(MidGame(1, 0), [Budget EXCEPT !.steps = 2 * MaxLeave])

NextLeave ==
    \/ \E sid \in {"s2", "s3"} : \E target \in {"A"} : \E o \in LeaveOffers :
          OfferTradeOf(sid, target, o)
    \/ \E sid \in Sids : AcceptTrade(sid)
    \/ \E sid \in Sids : Bankrupt(sid)

SpecLeave == InitLeave /\ [][NextLeave]_vars

\* C36: the owner of every property is nobody or a player of the game, also
\* after a trade offered before a player left is accepted
C36_OwnersExist ==
    \A pos \in Ownable :
        g.properties[pos].owner = NONE \/ g.properties[pos].owner \in Range(g.players)


\* C37: a game with at most one player left is over, whichever way the
\* players were removed
C37_LastPlayerEndsGame == Len(g.players) <= 1 => g.game_over.over


-----------------------------------------------------------------------------
(* Connections that act in a game: auth, then game_action                   *)

MaxActor == 2

ActorBudget == [Budget EXCEPT !.steps = MaxActor, !.session = MaxActor]

InitActor == \E gm \in {FreshGame, MidGame(1, 0)} : InitWith(gm, ActorBudget)

NextActor ==
    \/ \E sid \in Connections : Connect(sid)
    \/ \E sid \in Connections : \E display \in Displays : Auth(sid, display)
    \/ \E sid \in Connections : LobbyJoin(sid)
    \/ \E sid \in LiveSids : RollDice(sid)
    \/ \E sid \in LiveSids : EndTurn(sid)

SpecActor == InitActor /\ [][NextActor]_vars

\* C38: a connection's turn request is accepted only under the display name
\* the lobby's connection map records for it
C38_ActorIsLobbyMember ==
    [][(ev'.op \in {"roll_dice", "end_turn"} /\ ev'.ok)
          => sid_name(l, ev'.sid) = ev'.actor]_vars


\* C39: a denied buy_property leaves every player's cash, the debt queues
\* and the property fields as they were
C39_FailedPurchaseFrame ==
    [][(ev'.op = "buy_property" /\ g'.last_action.type = "buy_failed")
          => (g'.P = g.P /\ g'.debts = g.debts /\ g'.properties = g.properties)]_vars


-----------------------------------------------------------------------------
(* A jailed player in the red                                               *)

MaxWedge == 6

\* C, in jail with a jail card and to move, has paid A 1300 in a trade and is
\* overdrawn by 100
JailDebt ==
    accept_trade(
        offer_trade(MidGame(2, 0), "C", "A", Side(1300, <<>>, FALSE), NoSide, NoTerms,
                    FirstTradeId.r).g,
        "A", FirstTradeId).g

\* the offer A sends: 200 for nothing
WedgeOffers == {[give |-> Side(200, <<>>, FALSE), receive |-> NoSide, terms |-> NoTerms]}

InitWedge == InitWith(JailDebt, [Budget EXCEPT !.steps = MaxWedge])

NextWedge ==
    \/ \E sid \in Sids : TurnOf(sid) /\ RollDice(sid)
    \/ \E sid \in Sids : TurnOf(sid) /\ EndTurn(sid)
    \/ \E sid \in Sids : TurnOf(sid) /\ UseJailCard(sid)
    \/ \E o \in WedgeOffers : OfferTradeOf("s1", "C", o)
    \/ AcceptTrade("s3")

SpecWedge == InitWedge /\ [][NextWedge]_vars

\* C40: in a running game of two or more players, a player to move whose
\* cash is not negative can roll or can end the turn
C40_NoWedgedTurn ==
    (~g.game_over.over /\ Len(g.players) >= 2 /\ HasCur(g) /\ g.P[Cur(g)].cash >= 0)
        => (roll_begin(g).out /= "no_rolls" \/ end_turn(g).ok)

=============================================================================
